---- MODULE Spec2Model ----
(***************************************************************************)
(* A model of the QuickJS embedding layer src/src/js.c (holepunchto/libqjs).*)
(*                                                                         *)
(* The module holds several specifications over one set of variables:      *)
(*   SpecExec   script-executing APIs: env->depth, the pending exception,  *)
(*              the microtask queue, the uncaught-exception callback and   *)
(*              the host's callbacks calling back in.                      *)
(*   SpecBridge js__on_function_call, js__on_constructor_call: the         *)
(*              wrappers a callback creates and returns, their release,    *)
(*              and the unsupported-operation stubs.                       *)
(*   SpecRef    handle scopes, engine reference counts, references (weak   *)
(*              and strong).                                               *)
(*   SpecWrap   js_wrap / js_remove_wrap and the collection of the object. *)
(*   SpecFinalizer  js_add_finalizer and the collection of the object.     *)
(*   SpecTag    js_add_type_tag / js_check_type_tag.                       *)
(*   SpecReject the unhandled-rejection tracker and its delivery in the    *)
(*              microtask drain.                                           *)
(*   SpecStore  backing stores and the array buffers created from them.    *)
(*   SpecShared the reference-counted headers of SharedArrayBuffers.       *)
(*   SpecTeardown, SpecTeardownFair  the teardown queue, js_destroy_env    *)
(*              and the closing of the env on the event loop.              *)
(*   SpecScope  escapable handle scopes and js_escape_handle.              *)
(*   SpecPending  handle scopes, references and value queries while an     *)
(*              exception is pending.                                      *)
(*   SpecString the string extractors js_get_value_string_*.               *)
(*   SpecModule js_instantiate_module and env->resolvers.                  *)
(*   SpecArray  js_set_array_elements / js_get_array_elements and          *)
(*              env->depth.                                                *)
(*   SpecFinish SpecTeardown with finish calls on handles already freed.   *)
(*   SpecInfo   js_get_callback_info inside a native function call.        *)
(*   SpecDelegate  the get-own-property hook of delegates and its traps.   *)
(*   SpecNames  js_get_property_names on a plain object.                   *)
(* The engine (QuickJS) is an external collaborator: it is modelled by the *)
(* contract js.c relies on (a reference-counted heap whose objects are     *)
(* finalized when their count reaches zero, hidden properties that         *)
(* JS_DefinePropertyValue installs and JS_DeleteProperty removes, one      *)
(* pending-exception slot, one pending-job queue).                         *)
(***************************************************************************)
EXTENDS Integers, Sequences, FiniteSets, TLC

\* ------------------------------------------------------------------ bounds

\* Largest count a reference is created with or raised to.
MaxCount == 2
\* Largest number of simultaneously open handle scopes.
MaxScopes == 2
\* Largest number of wrappers attached to one handle scope.
MaxWrappers == 2
\* Script effects (enqueue a job, call a native function, nested API call) one
\* top-level call may perform; also the largest pending-job queue.
MaxEffects == 2
\* Exception queries recorded after a call returned.
MaxProbes == 3
\* Counts a backing store or a shared payload header is followed up to.
MaxReferences == 3
MaxEscapes == 2
\* Longest string, in characters, and largest buffer capacity, in code units,
\* handed to a string extractor.
MaxChars == 2
\* Longest chain of resolver records followed.
MaxResolvers == 3
\* Longest run of array elements set or fetched by one call; also how far
\* below zero env->depth is followed.
MaxElements == 2
MaxCapacity == 3
\* Most arguments a script passes to a native function.
MaxArgs == 2
\* Most own properties of the object whose names are asked for.
MaxNames == 4

\* ------------------------------------------------------------ value domain

\* Engine objects (JS_IsObject / JS_IsFunction values).
Objects == {"o1"}
\* A primitive engine value (a number): never reference counted.
Prim == "prim"
\* The object js__on_constructor_call creates for the new instance; its
\* reference count is not followed.
Receiver == "receiver"
\* The modules the host creates.
Modules == {"main", "dep1", "dep2"}
\* Characters of a script string: U+0061, U+00E9 and U+1F600.
Chars == {"a", "e_acute", "grinning_face"}
\* The engine's JS_NULL.
JS_NULL == "JS_NULL"
\* A C NULL pointer.
NULL == "NULL"
\* js_ref_t instances the host may create.
RefIds == {"r1", "r2"}
\* Host data pointers handed to js_wrap, each used for one wrap.
DataIds == {"d1", "d2"}
\* Host finalize hints handed to js_wrap.
HintIds == {"h1", "h2"}
\* Host data pointers handed to js_add_finalizer, each used for one call.
FinalizerData == {"f1", "f2", "f3"}
\* Type tags: the two 64-bit halves, each from a two-value domain.
TypeTags == [lower : {0, 1}, upper : {0, 1}]
\* The promises script creates.
Promises == {"p1", "p2"}
\* Backing stores, the array buffers created from them, and the payloads of
\* SharedArrayBuffers.
Stores == {"bs1", "bs2"}
Buffers == {"ab1", "ab2", "ab3"}
Payloads == {"m1", "m2"}
\* Teardown tasks, each named by its (callback, data) pair or its handle.
Tasks == {"t1", "t2", "t3"}
\* The loop handles of an env: prepare, check and teardown.
Handles == {"prepare", "check", "teardown"}
\* The error js_add_type_tag throws on a tagged object.
TagError == "Object is already type tagged"

\* Values thrown, told apart by who throws: the script of an API's operation,
\* a job of the microtask queue, the host through js_throw_error.
OpError == "e1"
JobError == "e2"
HostError == "e3"
Errs == {OpError, JobError, HostError}
\* The Error the unsupported-operation stubs throw, named by its message.
UnsupportedError == "Unsupported operation"
\* The TypeError the engine throws when a value cannot be converted to a number.
ConversionError == "cannot convert to number"
\* The empty pending-exception slot; also what JS_GetException yields then.
JS_UNINITIALIZED == "JS_UNINITIALIZED"
JS_UNDEFINED == "JS_UNDEFINED"
JS_EXCEPTION == "JS_EXCEPTION"
\* Status codes.
js_ok == "0"
js_pending_exception == "js_pending_exception"
js_uncaught_exception == "js_uncaught_exception"

VARIABLES
  objState,     \* engine: per object "none" (not created) | "alive" | "freed"
  objRc,        \* engine: per object reference count
  objProps,     \* engine: per object the set of hidden external properties
  scopes,       \* env->scope chain, outermost first; each scope its values[]
  refs,         \* the js_ref_t instances
  finalizeLog,  \* host finalize callbacks invoked so far, as <<data, hint>>
  wraps,        \* history: per data pointer the js_wrap it was used for
  lastGet,      \* history: the js_get_reference_value that just returned
  lastChange,   \* history: per reference its last count transition
  depth,        \* env->depth, a uint32_t: a negative value -k stands for 2^32 - k
  exception,    \* engine: the context's pending-exception slot
  jobs,         \* engine: number of pending jobs (microtasks) in the queue
  uncaught_exception, \* env->callbacks.uncaught_exception: NULL or the callback
  stack,        \* the C call stack of frames that have not returned yet
  budget,       \* script effects the running top-level call may still perform
  ret,          \* history: the call of a script-executing API that just returned
  probes,       \* history: exception queries made since that return
  returned,     \* engine: the value the last native function handed back
  releases,     \* history: per object the JS_FreeValue calls js.c made on its wrappers
  crashed,      \* the process died: a use of freed engine memory, a failed assert
  addLog,       \* history: the js_add_finalizer calls made, oldest first
  tagLog,       \* history: per object the tags of its successful js_add_type_tag calls
  tagRefused,   \* history: the objects a js_add_type_tag refused as already tagged
  lastTag,      \* history: the type tag call that returned last
  promises,     \* engine: per promise "pending" | "rejected" (no handler) | "handled"
  promise_rejections, \* env->promise_rejections, head first; a node is named by its promise
  unhandled_rejection, \* env->callbacks.unhandled_rejection: NULL or the callback
  reportLog,    \* history: the promises a node was inserted for, oldest first
  removed,      \* history: the promises whose node a handled report removed
  deliveries,   \* history: the promises the unhandled-rejection callback was called with
  stores,       \* the js_arraybuffer_backing_store_t instances
  buffers,      \* engine: the array buffers created from backing stores
  headers,      \* the js_arraybuffer_header_t instances of SharedArrayBuffer payloads
  env_state,    \* "running" | "walking" (in js_destroy_env) | "destroyed" | "closing" | "freed"
  teardown_queue, \* env->teardown_queue.tasks, head first
  env_refs,     \* env->refs: the deferred teardown tasks outstanding
  destroying,   \* env->destroying
  todo,         \* js_destroy_env: the tasks its walk has still to visit
  current,      \* js_destroy_env: the task whose callback is running, or NoTask
  async_pending, \* libuv: env->teardown was signalled and js__on_teardown has not run
  active_handles, \* env->active_handles
  registered,   \* history: immediate tasks registered before js_destroy_env and not removed
  teardownLog,  \* history: the immediate teardown callbacks invoked, in order
  closes,       \* history: the executions of js__close_env, with env->refs at the time
  finishes,     \* history: the deferred tasks freed, and the finish call that returned last
  escapable,    \* history: the open escapable scope's place in the chain, and its escapes
  strCall,      \* history: the string extraction that returned last, and what it did
  resolvers,    \* env->resolvers: the chain of resolver records, the head last
  definition,   \* per module whether module->definition is set
  cbInfo,       \* the js_callback_info_t of the running native call: info->argv, and
                \* history: the js_get_callback_info call that returned last
  hook,         \* the js__on_delegate_get_own_property call under way or last returned
  names         \* the own properties of a plain object, and history: the
                \* js_get_property_names call on it that returned last

\* Variables outside the heap: SpecRef and SpecWrap never touch them.
ctlVars == <<depth, exception, jobs, uncaught_exception, stack, budget, ret, probes, returned, releases, crashed>>

\* Heap and history variables of the reference and wrap API.
refVars == <<objState, objRc, objProps, refs, finalizeLog, wraps, lastGet, lastChange>>

\* Module instantiation.
modVars == <<resolvers, definition>>

\* History variables of the handle-scope and string API, and the modules.
apiVars == <<escapable, strCall, modVars>>

\* History variables of finalizer lists and type tags.
tagVars == <<addLog, tagLog, tagRefused, lastTag>>

\* The unhandled-rejection tracker.
rejVars == <<promises, promise_rejections, unhandled_rejection, reportLog, removed, deliveries>>

\* Backing stores and SharedArrayBuffer payloads.
bufVars == <<stores, buffers, headers>>

\* The environment's teardown.
envVars == <<env_state, teardown_queue, env_refs, destroying, todo, current, async_pending,
             active_handles, registered, teardownLog, closes, finishes>>

\* Variables the script-executing APIs of SpecExec leave alone.
\* History variables of the calls that hand the host what a script passed.
infoVars == <<cbInfo, hook, names>>

extVars == <<apiVars, infoVars, tagVars, rejVars, bufVars, envVars>>

vars == <<objState, objRc, objProps, scopes, refs, finalizeLog, wraps, lastGet, lastChange, ctlVars, extVars>>

\* ---------------------------------------------------------------- helpers

IsObjectLike(v) == v \in Objects

NoRef == [state |-> "unused", value |-> JS_NULL, symbol |-> JS_NULL, count |-> 0, finalized |-> FALSE, target |-> JS_NULL]

NoGet == [ref |-> NULL, result |-> NULL]

NoWrap == [obj |-> NULL, hint |-> NULL, removed |-> FALSE]

NoRet == [fn |-> NULL]

NoTag == [op |-> NULL]

\* ownerFrees counts the JS_FreeValue calls made on the store's owner.
NoStore == [state |-> "none", references |-> 0, released |-> FALSE, ownerFrees |-> 0]

NoBuffer == [state |-> "none", store |-> NULL]

NoTask == [id |-> NULL, type |-> NULL]

NoFinish == [task |-> NULL]

\* level 0: no escapable scope is open. escaped counts the wrappers that
\* js_escape_handle attached to the scope's parent.
NoEscapable == [level |-> 0, escaped |-> 0]

NoStringCall == [fn |-> NULL]

NoInfoCall == [capacity |-> NULL]

NoCallbackInfo == [argv |-> <<>>, call |-> NoInfoCall]

NoHook == [pc |-> "idle"]

\* A plain object: index holds the values of its properties "0", "1", ...,
\* named its other string keys in the order they were created; all of them
\* enumerable.
EmptyObject == [index |-> <<>>, named |-> <<>>]

NoNamesCall == [status |-> NULL]

\* holders counts the parties that took the payload and have not freed it.
NoHeader == [state |-> "none", references |-> 0, holders |-> 0, origin |-> NULL]

Top == stack[Len(stack)]

Pop(s) == SubSeq(s, 1, Len(s) - 1)

\* The engine heap as one record, so that a handler's calls compose.
Heap == [st |-> objState, rc |-> objRc, props |-> objProps, refs |-> refs, log |-> finalizeLog]

SetHeap(h) ==
  /\ objState' = h.st
  /\ objRc' = h.rc
  /\ objProps' = h.props
  /\ refs' = h.refs
  /\ finalizeLog' = h.log

\* Values the host still holds a valid js_value_t for: those in open scopes.
Held == UNION {{scopes[i][j] : j \in 1..Len(scopes[i])} : i \in 1..Len(scopes)}

TopScope == scopes[Len(scopes)]

\* ------------------------------------------------------- engine: the heap

\* Mutant: the finalize callback forgets to set the finalized flag.
js__on_reference_finalize_NoFlag(h, r) ==
  [h EXCEPT !.refs[r].value = JS_NULL]

js__on_reference_finalize(h, r) ==
  [h EXCEPT !.refs[r].value = JS_NULL, !.refs[r].finalized = TRUE]

js__on_external_finalize(h, finalizer) ==
  IF finalizer.finalize_cb = NULL THEN h
  ELSE IF finalizer.finalize_cb = "js__on_reference_finalize"
    THEN js__on_reference_finalize(h, finalizer.data)
    ELSE [h EXCEPT !.log = Append(@, <<finalizer.data, finalizer.finalize_hint>>)]

NativeFinalizer == "__native_finalizer"

\* The finalizer class: walk the list from its head and invoke each callback.
RECURSIVE js__on_finalizer_finalize(_, _)
js__on_finalizer_finalize(h, list) ==
  IF list = <<>> THEN h
  ELSE LET finalizer == Head(list)
           h1 == IF finalizer.finalize_cb # NULL
                 THEN [h EXCEPT !.log = Append(@, <<finalizer.data, finalizer.finalize_hint>>)]
                 ELSE h
       IN js__on_finalizer_finalize(h1, Tail(list))

\* The class finalizer of one hidden property's value.
FinalizeProperty(h, e) ==
  IF e.key = NativeFinalizer THEN js__on_finalizer_finalize(h, e.list)
  ELSE js__on_external_finalize(h, e)

RECURSIVE FinalizeExternals(_, _)
FinalizeExternals(h, externals) ==
  IF externals = {} THEN h
  ELSE LET e == CHOOSE x \in externals : TRUE
       IN FinalizeExternals(FinalizeProperty(h, e), externals \ {e})

\* The engine frees an object whose count reached zero: its hidden externals
\* go with it and each runs the external class finalizer.
FreeObject(h, o) ==
  FinalizeExternals([h EXCEPT !.st[o] = "freed", !.props[o] = {}], h.props[o])

JS_FreeValue(h, v) ==
  IF ~IsObjectLike(v) THEN h
  ELSE IF h.rc[v] = 1 THEN FreeObject([h EXCEPT !.rc[v] = 0], v)
  ELSE [h EXCEPT !.rc[v] = @ - 1]

JS_DupValue(h, v) ==
  IF IsObjectLike(v) THEN [h EXCEPT !.rc[v] = @ + 1] ELSE h

\* JS_DefinePropertyValue(object, key, external): the object owns the external.
DefineExternal(h, o, key, finalizer) ==
  [h EXCEPT !.props[o] = {e \in @ : e.key # key} \cup {[key |-> key] @@ finalizer}]

HasExternal(h, o, key) == \E e \in h.props[o] : e.key = key

GetExternal(h, o, key) == CHOOSE e \in h.props[o] : e.key = key

\* JS_DeleteProperty(object, key): the external loses its only owner and is
\* finalized with the finalizer record as it stands.
DeleteExternal(h, o, key, finalizer) ==
  js__on_external_finalize([h EXCEPT !.props[o] = {e \in @ : e.key # key}], finalizer)

\* ----------------------------------------------------------- handle scopes

js__attach_to_handle_scope(s, v) ==
  [s EXCEPT ![Len(s)] = Append(@, v)]

js_open_handle_scope ==
  /\ Len(scopes) < MaxScopes
  /\ scopes' = Append(scopes, <<>>)
  /\ lastGet' = NoGet
  /\ UNCHANGED <<objState, objRc, objProps, refs, finalizeLog, wraps, lastChange, ctlVars, extVars>>

RECURSIVE FreeValues(_, _)
FreeValues(h, values) ==
  IF values = <<>> THEN h
  ELSE FreeValues(JS_FreeValue(h, Head(values)), Tail(values))

js_close_handle_scope ==
  /\ Len(scopes) > 0
  /\ SetHeap(FreeValues(Heap, TopScope))
  /\ scopes' = SubSeq(scopes, 1, Len(scopes) - 1)
  /\ lastGet' = NoGet
  /\ UNCHANGED <<wraps, lastChange, ctlVars, extVars>>

js_create_object ==
  \E o \in Objects :
    /\ objState[o] = "none"
    /\ Len(scopes) > 0
    /\ Len(TopScope) < MaxWrappers
    /\ objState' = [objState EXCEPT ![o] = "alive"]
    /\ objRc' = [objRc EXCEPT ![o] = 1]
    /\ scopes' = js__attach_to_handle_scope(scopes, o)
    /\ lastGet' = NoGet
    /\ UNCHANGED <<objProps, refs, finalizeLog, wraps, lastChange, ctlVars, extVars>>

js_create_int32 ==
  /\ Len(scopes) > 0
  /\ Len(TopScope) < MaxWrappers
  /\ scopes' = js__attach_to_handle_scope(scopes, Prim)
  /\ lastGet' = NoGet
  /\ UNCHANGED <<objState, objRc, objProps, refs, finalizeLog, wraps, lastChange, ctlVars, extVars>>

\* ------------------------------------------------------------- references

ReferenceFinalizer(r) ==
  [data |-> r, finalize_cb |-> "js__on_reference_finalize", finalize_hint |-> NULL]

js__set_weak_reference(h, r) ==
  IF h.refs[r].finalized THEN h
  ELSE LET v == h.refs[r].value
           h1 == DefineExternal(h, v, h.refs[r].symbol, ReferenceFinalizer(r))
       IN JS_FreeValue(h1, v)

\* Mutant: the weak hookup is removed without taking the strong reference back.
js__clear_weak_reference_NoDup(h, r) ==
  IF h.refs[r].finalized THEN h
  ELSE LET v == h.refs[r].value
           external == GetExternal(h, v, h.refs[r].symbol)
           finalizer == [data |-> external.data, finalize_cb |-> NULL, finalize_hint |-> external.finalize_hint]
       IN DeleteExternal(h, v, h.refs[r].symbol, finalizer)

js__clear_weak_reference(h, r) ==
  IF h.refs[r].finalized THEN h
  ELSE LET v == h.refs[r].value
           h1 == JS_DupValue(h, v)
           external == GetExternal(h1, v, h1.refs[r].symbol)
           finalizer == [data |-> external.data, finalize_cb |-> NULL, finalize_hint |-> external.finalize_hint]
       IN DeleteExternal(h1, v, h1.refs[r].symbol, finalizer)

CreateReference(h, r, v, count) ==
  LET h1 == JS_DupValue(h, v)
      h2 == [h1 EXCEPT !.refs[r] = [state |-> "live", value |-> v,
                                    symbol |-> IF IsObjectLike(v) THEN r ELSE JS_NULL,
                                    count |-> count, finalized |-> FALSE, target |-> v]]
  IN IF IsObjectLike(v) /\ count = 0 THEN js__set_weak_reference(h2, r) ELSE h2

js_create_reference ==
  \E r \in RefIds, v \in Held, count \in 0..MaxCount :
    /\ refs[r].state = "unused"
    /\ SetHeap(CreateReference(Heap, r, v, count))
    /\ lastGet' = NoGet
    /\ lastChange' = [lastChange EXCEPT ![r] = "none"]
    /\ UNCHANGED <<scopes, wraps, ctlVars, extVars>>

\* Mutant: the weak hookup is left in place.
DeleteReference_NoClear(h, r) ==
  LET h2 == JS_FreeValue(h, h.refs[r].value)
  IN [h2 EXCEPT !.refs[r] = [NoRef EXCEPT !.state = "deleted", !.target = h.refs[r].target]]

\* The freed js_ref_t keeps, as history, the target it was created for.
DeleteReference(h, r) ==
  LET h1 == IF h.refs[r].count = 0 /\ IsObjectLike(h.refs[r].value)
            THEN js__clear_weak_reference(h, r) ELSE h
      h2 == JS_FreeValue(h1, h1.refs[r].value)
  IN [h2 EXCEPT !.refs[r] = [NoRef EXCEPT !.state = "deleted", !.target = h.refs[r].target]]

js_delete_reference ==
  \E r \in RefIds :
    /\ refs[r].state = "live"
    /\ SetHeap(DeleteReference(Heap, r))
    /\ lastGet' = NoGet
    /\ UNCHANGED <<scopes, wraps, lastChange, ctlVars, extVars>>

\* Mutant: the 0 -> 1 transition leaves the weak hookup in place.
ReferenceRef_NoClear(h, r) ==
  [h EXCEPT !.refs[r].count = @ + 1]

ReferenceRef(h, r) ==
  LET h1 == [h EXCEPT !.refs[r].count = @ + 1]
  IN IF h1.refs[r].count = 1 /\ IsObjectLike(h1.refs[r].value)
     THEN js__clear_weak_reference(h1, r) ELSE h1

js_reference_ref ==
  \E r \in RefIds :
    /\ refs[r].state = "live"
    /\ refs[r].count < MaxCount
    /\ SetHeap(ReferenceRef(Heap, r))
    /\ lastGet' = NoGet
    /\ lastChange' = [lastChange EXCEPT ![r] = IF refs[r].count = 0 THEN "0to1" ELSE "none"]
    /\ UNCHANGED <<scopes, wraps, ctlVars, extVars>>

ReferenceUnref(h, r) ==
  IF h.refs[r].count > 0
  THEN LET h1 == [h EXCEPT !.refs[r].count = @ - 1]
       IN IF h1.refs[r].count = 0 /\ IsObjectLike(h1.refs[r].value)
          THEN js__set_weak_reference(h1, r) ELSE h1
  ELSE h

js_reference_unref ==
  \E r \in RefIds :
    /\ refs[r].state = "live"
    /\ SetHeap(ReferenceUnref(Heap, r))
    /\ lastGet' = NoGet
    /\ lastChange' = [lastChange EXCEPT ![r] = IF refs[r].count = 1 THEN "1to0" ELSE "none"]
    /\ UNCHANGED <<scopes, wraps, ctlVars, extVars>>

\* The value js_get_reference_value stores in *result.
GetReferenceValue(h, r) ==
  IF h.refs[r].finalized THEN NULL ELSE h.refs[r].value

js_get_reference_value ==
  \E r \in RefIds :
    /\ refs[r].state = "live"
    /\ Len(scopes) > 0
    /\ Len(TopScope) < MaxWrappers
    /\ LET result == GetReferenceValue(Heap, r)
       IN /\ IF result = NULL
             THEN UNCHANGED <<objState, objRc, objProps, refs, finalizeLog, scopes>>
             ELSE /\ SetHeap(JS_DupValue(Heap, result))
                  /\ scopes' = js__attach_to_handle_scope(scopes, result)
          /\ lastGet' = [ref |-> r, result |-> result]
    /\ UNCHANGED <<wraps, lastChange, ctlVars, extVars>>

\* ------------------------------------------------------------------- wrap

NativeExternal == "__native_external"

Wrap(h, o, data, finalize_cb, finalize_hint) ==
  DefineExternal(h, o, NativeExternal,
                 [data |-> data, finalize_cb |-> finalize_cb, finalize_hint |-> finalize_hint])

\* js_wrap; with_ref says whether the caller passes a non-NULL result, in which
\* case a weak reference on the object is created as well.
js_wrap ==
  \E o \in Held \cap Objects, data \in DataIds, hint \in HintIds, with_ref \in {NULL} \cup RefIds :
    /\ ~HasExternal(Heap, o, NativeExternal)
    /\ wraps[data] = NoWrap
    /\ with_ref # NULL => refs[with_ref].state = "unused"
    /\ LET h1 == Wrap(Heap, o, data, "finalize_cb", hint)
       IN SetHeap(IF with_ref = NULL THEN h1 ELSE CreateReference(h1, with_ref, o, 0))
    /\ wraps' = [wraps EXCEPT ![data] = [obj |-> o, hint |-> hint, removed |-> FALSE]]
    /\ lastGet' = NoGet
    /\ lastChange' = IF with_ref = NULL THEN lastChange ELSE [lastChange EXCEPT ![with_ref] = "none"]
    /\ UNCHANGED <<scopes, ctlVars, extVars>>

\* Mutant: the property is deleted without neutralising the callback first.
RemoveWrap_NoNeutralise(h, o) ==
  LET external == GetExternal(h, o, NativeExternal)
      finalizer == [data |-> external.data, finalize_cb |-> external.finalize_cb, finalize_hint |-> external.finalize_hint]
  IN DeleteExternal(h, o, NativeExternal, finalizer)

RemoveWrap(h, o) ==
  LET external == GetExternal(h, o, NativeExternal)
      finalizer == [data |-> external.data, finalize_cb |-> NULL, finalize_hint |-> external.finalize_hint]
  IN DeleteExternal(h, o, NativeExternal, finalizer)

js_remove_wrap ==
  \E o \in Held \cap Objects :
    /\ HasExternal(Heap, o, NativeExternal)
    /\ SetHeap(RemoveWrap(Heap, o))
    /\ wraps' = [wraps EXCEPT ![GetExternal(Heap, o, NativeExternal).data].removed = TRUE]
    /\ lastGet' = NoGet
    /\ UNCHANGED <<scopes, lastChange, ctlVars, extVars>>

\* -------------------------------------------------------------- finalizers

\* The list behind the object's "__native_finalizer" property, head first;
\* empty when the property is not there yet.
FinalizerList(h, o) ==
  IF HasExternal(h, o, NativeFinalizer) THEN GetExternal(h, o, NativeFinalizer).list ELSE <<>>

\* Mutant: the new finalizer is linked at the tail of the list.
AddFinalizer_Append(h, o, finalizer) ==
  [h EXCEPT !.props[o] = {e \in @ : e.key # NativeFinalizer} \cup
     {[key |-> NativeFinalizer, data |-> NULL, finalize_cb |-> "js__on_finalizer_finalize",
       finalize_hint |-> NULL, list |-> Append(FinalizerList(h, o), finalizer)]}]

\* The property is created with an empty list on the first call; the new
\* finalizer becomes the head of the list.
AddFinalizer(h, o, finalizer) ==
  [h EXCEPT !.props[o] = {e \in @ : e.key # NativeFinalizer} \cup
     {[key |-> NativeFinalizer, data |-> NULL, finalize_cb |-> "js__on_finalizer_finalize",
       finalize_hint |-> NULL, list |-> <<finalizer>> \o FinalizerList(h, o)]}]

\* js_add_finalizer; with_ref as in js_wrap.
js_add_finalizer ==
  \E o \in Held \cap Objects, data \in FinalizerData, finalize_cb \in {NULL, "finalize_cb"},
     hint \in HintIds, with_ref \in {NULL} \cup RefIds :
    /\ \A i \in 1..Len(addLog) : addLog[i].data # data
    /\ with_ref # NULL => refs[with_ref].state = "unused"
    /\ LET finalizer == [data |-> data, finalize_cb |-> finalize_cb, finalize_hint |-> hint]
           h1 == AddFinalizer(Heap, o, finalizer)
       IN /\ SetHeap(IF with_ref = NULL THEN h1 ELSE CreateReference(h1, with_ref, o, 0))
          /\ addLog' = Append(addLog, [obj |-> o] @@ finalizer)
    /\ lastGet' = NoGet
    /\ lastChange' = IF with_ref = NULL THEN lastChange ELSE [lastChange EXCEPT ![with_ref] = "none"]
    /\ tagLog' = tagLog
    /\ tagRefused' = tagRefused
    /\ lastTag' = lastTag
    /\ UNCHANGED <<scopes, wraps, ctlVars, apiVars, infoVars, rejVars, bufVars, envVars>>

\* ------------------------------------------------------- SpecRef, SpecWrap

InitHeap ==
  /\ objState = [o \in Objects |-> "none"]
  /\ objRc = [o \in Objects |-> 0]
  /\ objProps = [o \in Objects |-> {}]
  /\ scopes = <<>>
  /\ refs = [r \in RefIds |-> NoRef]
  /\ finalizeLog = <<>>
  /\ wraps = [d \in DataIds |-> NoWrap]
  /\ lastGet = NoGet
  /\ lastChange = [r \in RefIds |-> "none"]

InitCtl ==
  /\ depth = 0
  /\ exception = JS_UNINITIALIZED
  /\ jobs = 0
  /\ uncaught_exception = NULL
  /\ stack = <<>>
  /\ budget = 0
  /\ ret = NoRet
  /\ probes = <<>>
  /\ returned = NULL
  /\ releases = [o \in Objects |-> 0]
  /\ crashed = FALSE

InitExt ==
  /\ addLog = <<>>
  /\ tagLog = [o \in Objects |-> <<>>]
  /\ tagRefused = {}
  /\ lastTag = NoTag
  /\ promises = [p \in Promises |-> "pending"]
  /\ promise_rejections = <<>>
  /\ unhandled_rejection = NULL
  /\ reportLog = <<>>
  /\ removed = {}
  /\ deliveries = <<>>
  /\ stores = [b \in Stores |-> NoStore]
  /\ buffers = [a \in Buffers |-> NoBuffer]
  /\ headers = [m \in Payloads |-> NoHeader]
  /\ env_state = "running"
  /\ teardown_queue = <<>>
  /\ env_refs = 0
  /\ destroying = FALSE
  /\ todo = <<>>
  /\ current = NoTask
  /\ async_pending = FALSE
  /\ active_handles = Cardinality(Handles)
  /\ registered = <<>>
  /\ teardownLog = <<>>
  /\ closes = <<>>
  /\ finishes = [freed |-> {}, last |-> NoFinish]
  /\ escapable = NoEscapable
  /\ strCall = NoStringCall
  /\ resolvers = <<>>
  /\ definition = [m \in Modules |-> FALSE]
  /\ cbInfo = NoCallbackInfo
  /\ hook = NoHook
  /\ names = [object |-> EmptyObject, call |-> NoNamesCall]

Init == InitHeap /\ InitCtl /\ InitExt

\* References: any interleaving of the reference API with handle scopes.
NextRef ==
  \/ js_open_handle_scope
  \/ js_close_handle_scope
  \/ js_create_object
  \/ js_create_int32
  \/ js_create_reference
  \/ js_delete_reference
  \/ js_reference_ref
  \/ js_reference_unref
  \/ js_get_reference_value

SpecRef == Init /\ [][NextRef]_vars

\* Wraps: js_wrap / js_remove_wrap, the reference js_wrap may hand out, and
\* handle scopes, whose closing lets the engine collect the object.
NextWrap ==
  \/ js_open_handle_scope
  \/ js_close_handle_scope
  \/ js_create_object
  \/ js_wrap
  \/ js_remove_wrap
  \/ js_delete_reference
  \/ js_reference_ref
  \/ js_reference_unref
  \/ js_get_reference_value

SpecWrap == Init /\ [][NextWrap]_vars

\* Finalizers: js_add_finalizer on an object held in a handle scope, whose
\* closing lets the engine collect the object.
NextFinalizer ==
  \/ js_open_handle_scope
  \/ js_close_handle_scope
  \/ js_create_object
  \/ js_add_finalizer

SpecFinalizer == Init /\ [][NextFinalizer]_vars

\* ------------------------------------------------- frames and the exception

\* js__error: the status of a failing call, read off the exception slot.
js__error(slot) ==
  IF slot # JS_UNINITIALIZED THEN js_pending_exception ELSE js_uncaught_exception

\* A call of a script-executing API that has not returned yet. The entry*
\* fields and thrown / cbArgs / reason are history kept for the return record;
\* reason is what js_run_module rejected its promise with.
ApiFrame(fn, pc) ==
  [kind |-> "api", fn |-> fn, pc |-> pc, failed |-> FALSE,
   entryDepth |-> depth, entryExc |-> exception,
   thrown |-> JS_UNINITIALIZED, cbArgs |-> <<>>, reason |-> NULL]

\* The engine running script: mode "run" executes, "compile" only compiles;
\* error is the value the script throws if it throws.
ScriptFrame(mode, error) == [kind |-> "script", mode |-> mode, error |-> error]

\* js__on_run_microtasks between opening and closing its handle scope.
DrainFrame == [kind |-> "drain"]

\* The host's uncaught-exception callback, called with error.
CallbackFrame(error) == [kind |-> "uncaught", error |-> error]

\* js__on_run_microtasks after the jobs: next is its local list of the
\* rejection nodes still to deliver.
FlushFrame(next) == [kind |-> "flush", next |-> next]

\* The host's unhandled-rejection callback, called with promise.
RejectionFrame(promise) == [kind |-> "unhandled", promise |-> promise]

\* The host's function callback, called from js__on_function_call;
\* entryScopes is history: env->scope's chain when the bridge was entered.
NativeFrame == [kind |-> "native", entryScopes |-> scopes]

\* The host's constructor callback, called from js__on_constructor_call.
ConstructorFrame == [kind |-> "construct", entryScopes |-> scopes]

\* The record of a call that returned.
Returned(f, status, ran) ==
  [fn |-> f.fn, status |-> status, ran |-> ran, entryDepth |-> f.entryDepth,
   entryExc |-> f.entryExc, thrown |-> f.thrown, cbArgs |-> f.cbArgs, reason |-> f.reason]

\* The host has control: at top level or inside one of its callbacks.
HostTurn ==
  /\ ~crashed
  /\ IF stack = <<>> THEN TRUE ELSE Top.kind \in {"native", "construct", "uncaught", "unhandled"}

\* The engine is executing script.
ScriptTurn ==
  /\ ~crashed
  /\ stack # <<>>
  /\ Top.kind = "script"

\* A top-level call starts with a fresh budget, a nested one spends from it.
Charge ==
  IF stack = <<>> THEN budget' = MaxEffects
  ELSE budget > 0 /\ budget' = budget - 1

\* Whether fn runs js__on_run_microtasks after its operation; d is env->depth
\* after the increment.
RunsMicrotasks(fn, d) ==
  CASE fn = "js_new_instance" -> FALSE
    [] fn = "js_call_function_with_checkpoint" -> TRUE
    [] OTHER -> d = 1

\* Mutant: a failure is handed to js__on_uncaught_exception at every depth.
ReportsUncaught_AnyDepth(fn, d) == TRUE

\* Whether a failing fn hands the exception to js__on_uncaught_exception; d is
\* env->depth after the decrement.
ReportsUncaught(fn, d) ==
  CASE fn = "js_call_function_with_checkpoint" -> TRUE
    [] OTHER -> d = 0

\* --------------------------------------------- script-executing API: entry

\* Mutant: the depth is raised before the pending-exception check.
EnterScriptApi_DepthFirst(fn, mode) ==
  /\ HostTurn
  /\ Charge
  /\ probes' = <<>>
  /\ depth' = depth + 1
  /\ IF exception # JS_UNINITIALIZED
     THEN /\ ret' = Returned(ApiFrame(fn, "entry"), js__error(exception), FALSE)
          /\ UNCHANGED stack
     ELSE /\ stack' = stack \o <<ApiFrame(fn, "op"), ScriptFrame(mode, OpError)>>
          /\ ret' = NoRet
  /\ UNCHANGED <<extVars, refVars, scopes, exception, jobs, uncaught_exception, returned, releases, crashed>>

\* The common entry of the script-executing APIs: refuse with a pending
\* exception, else raise the depth and let the engine run the operation.
EnterScriptApi(fn, mode) ==
  /\ HostTurn
  /\ Charge
  /\ probes' = <<>>
  /\ IF exception # JS_UNINITIALIZED
     THEN /\ ret' = Returned(ApiFrame(fn, "entry"), js__error(exception), FALSE)
          /\ UNCHANGED <<depth, stack>>
     ELSE /\ depth' = depth + 1
          /\ stack' = stack \o <<ApiFrame(fn, "op"), ScriptFrame(mode, OpError)>>
          /\ ret' = NoRet
  /\ UNCHANGED <<extVars, refVars, scopes, exception, jobs, uncaught_exception, returned, releases, crashed>>

js_run_script == EnterScriptApi("js_run_script", "run")

js_call_function == EnterScriptApi("js_call_function", "run")

js_call_function_with_checkpoint == EnterScriptApi("js_call_function_with_checkpoint", "run")

js_new_instance == EnterScriptApi("js_new_instance", "run")

\* js_get_property, js_has_property, js_has_own_property, js_set_property and
\* js_delete_property and their named / element variants: one body each,
\* differing in the engine call only.
js_property == EnterScriptApi("js_property", "run")

\* module->meta is NULL: no import.meta callback runs before the evaluation.
js_run_module == EnterScriptApi("js_run_module", "run")

\* synthetic: module->source is null, nothing to compile.
js_instantiate_module ==
  \E synthetic \in BOOLEAN :
    IF synthetic /\ exception = JS_UNINITIALIZED
    THEN /\ HostTurn
         /\ Charge
         /\ probes' = <<>>
         /\ ret' = Returned(ApiFrame("js_instantiate_module", "entry"), js_ok, FALSE)
         /\ UNCHANGED <<extVars, refVars, scopes, depth, exception, jobs, uncaught_exception, stack, returned, releases, crashed>>
    ELSE EnterScriptApi("js_instantiate_module", "compile")

\* Mutant: the queue is drained at every depth.
ConcludeDrains_Always(d) == TRUE

\* The test js__conclude_deferred makes before js__on_run_microtasks.
ConcludeDrains(d) == d = 0

\* js_resolve_deferred / js_reject_deferred: calling the resolving function
\* may queue the promise's reactions; the queue is drained at depth 0.
js__conclude_deferred ==
  \E fn \in {"js__conclude_deferred"}, reactions \in 0..1 :
    /\ HostTurn
    /\ Charge
    /\ jobs + reactions <= MaxEffects
    /\ jobs' = jobs + reactions
    /\ probes' = <<>>
    /\ IF ConcludeDrains(depth)
       THEN /\ scopes' = Append(scopes, <<>>)
            /\ stack' = stack \o <<ApiFrame(fn, "concluded"), DrainFrame>>
            /\ ret' = NoRet
       ELSE /\ ret' = Returned(ApiFrame(fn, "entry"), js_ok, TRUE)
            /\ UNCHANGED <<scopes, stack>>
    /\ UNCHANGED <<extVars, refVars, depth, exception, uncaught_exception, returned, releases, crashed>>

\* ----------------------------------------------------- the engine: script

\* The running script queues a job (a promise reaction, queueMicrotask).
ScriptEnqueue ==
  /\ ScriptTurn
  /\ Top.mode = "run"
  /\ returned = NULL
  /\ budget > 0
  /\ jobs < MaxEffects
  /\ jobs' = jobs + 1
  /\ budget' = budget - 1
  /\ ret' = NoRet
  /\ UNCHANGED <<extVars, refVars, scopes, depth, exception, uncaught_exception, stack, probes, returned, releases, crashed>>

\* The running script catches: the engine hands the pending exception to the
\* catch clause and empties the slot (try { throw x } catch {} included).
ScriptCatch ==
  /\ ScriptTurn
  /\ Top.mode = "run"
  /\ returned \in {NULL, JS_EXCEPTION}
  /\ exception # JS_UNINITIALIZED
  /\ exception' = JS_UNINITIALIZED
  /\ returned' = NULL
  /\ ret' = NoRet
  /\ UNCHANGED <<extVars, refVars, scopes, depth, jobs, uncaught_exception, stack, budget, probes, releases, crashed>>

\* The running script drops the value a native function returned.
ScriptDrop ==
  /\ ScriptTurn
  /\ returned \notin {NULL, JS_EXCEPTION}
  /\ SetHeap(JS_FreeValue(Heap, returned))
  /\ returned' = NULL
  /\ ret' = NoRet
  /\ UNCHANGED <<extVars, wraps, lastGet, lastChange, scopes, depth, exception, jobs, uncaught_exception, stack, budget, probes, releases, crashed>>

\* Mutant: a handled report leaves the list alone.
RemoveRejection_Keep(list, promise) == list

\* The list without the node of promise.
RemoveRejection(list, promise) ==
  SelectSeq(list, LAMBDA node : node # promise)

\* js__on_promise_rejection, the tracker the engine calls when a promise is
\* rejected with no handler (is_handled false) and when a handler is attached
\* to such a promise later (is_handled true).
js__on_promise_rejection(promise, is_handled) ==
  IF unhandled_rejection = NULL
  THEN UNCHANGED <<promise_rejections, reportLog, removed>>
  ELSE IF is_handled
  THEN /\ promise_rejections' = RemoveRejection(promise_rejections, promise)
       /\ removed' = IF \E i \in 1..Len(promise_rejections) : promise_rejections[i] = promise
                     THEN removed \cup {promise} ELSE removed
       /\ UNCHANGED reportLog
  ELSE /\ promise_rejections' = <<promise>> \o promise_rejections
       /\ reportLog' = Append(reportLog, promise)
       /\ UNCHANGED removed

\* The running script rejects a promise that has no handler.
ScriptReject ==
  \E promise \in Promises :
    /\ ScriptTurn
    /\ Top.mode = "run"
    /\ returned = NULL
    /\ promises[promise] = "pending"
    /\ promises' = [promises EXCEPT ![promise] = "rejected"]
    /\ js__on_promise_rejection(promise, FALSE)
    /\ ret' = NoRet
    /\ UNCHANGED <<apiVars, infoVars, tagVars, bufVars, envVars, unhandled_rejection, deliveries>>
    /\ UNCHANGED <<refVars, scopes, depth, exception, jobs, uncaught_exception, stack, budget, probes, returned, releases, crashed>>

\* The running script attaches a handler to a promise rejected without one.
ScriptHandle ==
  \E promise \in Promises :
    /\ ScriptTurn
    /\ Top.mode = "run"
    /\ returned = NULL
    /\ promises[promise] = "rejected"
    /\ promises' = [promises EXCEPT ![promise] = "handled"]
    /\ js__on_promise_rejection(promise, TRUE)
    /\ ret' = NoRet
    /\ UNCHANGED <<apiVars, infoVars, tagVars, bufVars, envVars, unhandled_rejection, deliveries>>
    /\ UNCHANGED <<refVars, scopes, depth, exception, jobs, uncaught_exception, stack, budget, probes, returned, releases, crashed>>

\* js__on_uncaught_exception(error) called from the frames below st.stack's
\* top: with a callback, a scope is opened and the callback entered (the api
\* frame at index owner notes the argument); without, the error is re-thrown.
js__on_uncaught_exception(st, owner, error) ==
  IF uncaught_exception # NULL
  THEN [exception |-> st.exception,
        scopes |-> Append(st.scopes, <<>>),
        stack |-> Append([st.stack EXCEPT ![owner].cbArgs = Append(@, error)], CallbackFrame(error))]
  ELSE [st EXCEPT !.exception = error]

\* The script (or job, or compilation) ends: outcome is the value it throws,
\* JS_UNINITIALIZED when it completes normally. The caller is an API, or
\* js__on_run_microtasks whose JS_ExecutePendingJob returns.
ScriptReturn ==
  /\ ScriptTurn
  /\ Len(stack) >= 2
  /\ returned \in {NULL, JS_EXCEPTION}
  /\ \E outcome \in (IF returned = JS_EXCEPTION THEN {exception} ELSE {JS_UNINITIALIZED, Top.error}) :
       LET threw == outcome # JS_UNINITIALIZED
           parent == stack[Len(stack) - 1]
           below == SubSeq(stack, 1, Len(stack) - 1)
       IN IF parent.kind = "api"
          THEN /\ stack' = [below EXCEPT ![Len(below)] =
                              [parent EXCEPT !.pc = "evaluated", !.failed = threw, !.thrown = outcome]]
               /\ exception' = IF threw THEN outcome ELSE exception
               /\ UNCHANGED scopes
          ELSE IF threw
          THEN LET st == js__on_uncaught_exception(
                           [exception |-> JS_UNINITIALIZED, scopes |-> scopes, stack |-> below],
                           Len(below) - 1, outcome)
               IN /\ exception' = st.exception
                  /\ scopes' = st.scopes
                  /\ stack' = st.stack
          ELSE /\ stack' = below
               /\ UNCHANGED <<exception, scopes>>
  /\ returned' = NULL
  /\ ret' = NoRet
  /\ UNCHANGED <<extVars, refVars, depth, jobs, uncaught_exception, budget, probes, releases, crashed>>

\* ------------------------------------------ script-executing API: the rest

\* After the operation: the microtask checkpoint, where the API has one.
ApiCheckpoint ==
  /\ ~crashed
  /\ stack # <<>>
  /\ Top.kind = "api"
  /\ Top.pc = "evaluated"
  /\ IF RunsMicrotasks(Top.fn, depth)
     THEN /\ scopes' = Append(scopes, <<>>)
          /\ stack' = Append([stack EXCEPT ![Len(stack)].pc = "drained"], DrainFrame)
     ELSE /\ stack' = [stack EXCEPT ![Len(stack)].pc = "drained"]
          /\ UNCHANGED scopes
  /\ ret' = NoRet
  /\ UNCHANGED <<extVars, refVars, depth, exception, jobs, uncaught_exception, budget, probes, returned, releases, crashed>>

\* js__on_run_microtasks: run the next pending job; with none left take
\* env->promise_rejections into the local list and deliver it, or with
\* nothing to deliver close the handle scope and return.
js__on_run_microtasks ==
  /\ ~crashed
  /\ stack # <<>>
  /\ Top.kind = "drain"
  /\ IF jobs > 0
     THEN /\ jobs' = jobs - 1
          /\ stack' = Append(stack, ScriptFrame("run", JobError))
          /\ UNCHANGED <<scopes, promise_rejections>>
     ELSE IF promise_rejections # <<>>
     THEN /\ stack' = [stack EXCEPT ![Len(stack)] = FlushFrame(promise_rejections)]
          /\ promise_rejections' = <<>>
          /\ UNCHANGED <<scopes, jobs>>
     ELSE /\ scopes' = Pop(scopes)
          /\ stack' = Pop(stack)
          /\ UNCHANGED <<jobs, promise_rejections>>
  /\ ret' = NoRet
  /\ UNCHANGED <<apiVars, infoVars, tagVars, bufVars, envVars, promises, unhandled_rejection, reportLog, removed, deliveries>>
  /\ UNCHANGED <<refVars, depth, exception, uncaught_exception, budget, probes, returned, releases, crashed>>

\* The delivery loop of js__on_run_microtasks: js__on_unhandled_rejection for
\* the next node (with a callback: open a scope and enter it), or with no node
\* left close the handle scope and return.
js__on_unhandled_rejection ==
  /\ ~crashed
  /\ stack # <<>>
  /\ Top.kind = "flush"
  /\ IF Top.next = <<>>
     THEN /\ scopes' = Pop(scopes)
          /\ stack' = Pop(stack)
          /\ UNCHANGED deliveries
     ELSE IF unhandled_rejection # NULL
     THEN /\ scopes' = Append(scopes, <<>>)
          /\ stack' = Append([stack EXCEPT ![Len(stack)].next = Tail(@)], RejectionFrame(Head(Top.next)))
          /\ deliveries' = Append(deliveries, Head(Top.next))
     ELSE /\ stack' = [stack EXCEPT ![Len(stack)].next = Tail(@)]
          /\ UNCHANGED <<scopes, deliveries>>
  /\ ret' = NoRet
  /\ UNCHANGED <<apiVars, infoVars, tagVars, bufVars, envVars, promises, promise_rejections, unhandled_rejection, reportLog, removed>>
  /\ UNCHANGED <<refVars, depth, exception, jobs, uncaught_exception, budget, probes, returned, releases, crashed>>

\* The unhandled-rejection callback returns: js__on_unhandled_rejection closes
\* its handle scope and frees promise and reason.
unhandled_rejection_return ==
  /\ ~crashed
  /\ stack # <<>>
  /\ Top.kind = "unhandled"
  /\ scopes' = Pop(scopes)
  /\ stack' = Pop(stack)
  /\ ret' = NoRet
  /\ probes' = <<>>
  /\ UNCHANGED <<extVars, refVars, depth, exception, jobs, uncaught_exception, budget, returned, releases, crashed>>

\* js_on_unhandled_rejection: the host registers or clears the callback.
js_on_unhandled_rejection ==
  \E cb \in {NULL, "cb"} :
    /\ ~crashed
    /\ stack = <<>>
    /\ cb # unhandled_rejection
    /\ unhandled_rejection' = cb
    /\ ret' = NoRet
    /\ probes' = <<>>
    /\ UNCHANGED <<apiVars, infoVars, tagVars, bufVars, envVars, promises, promise_rejections, reportLog, removed, deliveries>>
    /\ UNCHANGED <<refVars, scopes, depth, exception, jobs, uncaught_exception, stack, budget, returned, releases, crashed>>

\* The tail of the API: lower the depth, deal with a failed operation, return.
ApiFinish ==
  /\ ~crashed
  /\ stack # <<>>
  /\ Top.kind = "api"
  /\ Top.pc = "drained"
  /\ depth' = depth - 1
  /\ LET f == Top
         d == depth - 1
     IN IF ~f.failed
        THEN /\ stack' = Pop(stack)
             /\ ret' = Returned(f, js_ok, TRUE)
             /\ UNCHANGED <<exception, scopes>>
        ELSE IF f.fn = "js_run_module"
        THEN \* JS_GetException takes what is pending and a fresh promise is
             \* rejected with it
             /\ exception' = JS_UNINITIALIZED
             /\ IF d = 0
                THEN /\ scopes' = Append(scopes, <<>>)
                     /\ stack' = Append([stack EXCEPT ![Len(stack)].pc = "concluded",
                                                      ![Len(stack)].reason = exception], DrainFrame)
                     /\ ret' = NoRet
                ELSE /\ stack' = Pop(stack)
                     /\ ret' = Returned([f EXCEPT !.reason = exception], js_ok, TRUE)
                     /\ UNCHANGED scopes
        ELSE IF ReportsUncaught(f.fn, d)
        THEN LET st == js__on_uncaught_exception(
                         [exception |-> JS_UNINITIALIZED, scopes |-> scopes,
                          stack |-> [stack EXCEPT ![Len(stack)].pc = "reported"]],
                         Len(stack), exception)
             IN /\ exception' = st.exception
                /\ scopes' = st.scopes
                /\ IF uncaught_exception # NULL
                   THEN /\ stack' = st.stack
                        /\ ret' = NoRet
                   ELSE /\ stack' = Pop(stack)
                        /\ ret' = Returned(f, js__error(st.exception), TRUE)
        ELSE /\ stack' = Pop(stack)
             /\ ret' = Returned(f, js__error(exception), TRUE)
             /\ UNCHANGED <<exception, scopes>>
  /\ UNCHANGED <<extVars, refVars, jobs, uncaught_exception, budget, probes, returned, releases, crashed>>

\* The API returns after the uncaught-exception callback came back
\* ("reported") or after js__conclude_deferred drained ("concluded").
ApiReturn ==
  /\ ~crashed
  /\ stack # <<>>
  /\ Top.kind = "api"
  /\ Top.pc \in {"reported", "concluded"}
  /\ stack' = Pop(stack)
  /\ ret' = Returned(Top, IF Top.pc = "reported" THEN js__error(exception) ELSE js_ok, TRUE)
  /\ UNCHANGED <<extVars, refVars, scopes, depth, exception, jobs, uncaught_exception, budget, probes, returned, releases, crashed>>

\* --------------------------------------------------------- host callbacks

\* The uncaught-exception callback returns: js__on_uncaught_exception closes
\* its handle scope and frees the error.
uncaught_exception_return ==
  /\ ~crashed
  /\ stack # <<>>
  /\ Top.kind = "uncaught"
  /\ scopes' = Pop(scopes)
  /\ stack' = Pop(stack)
  /\ ret' = NoRet
  /\ probes' = <<>>
  /\ UNCHANGED <<extVars, refVars, depth, exception, jobs, uncaught_exception, budget, returned, releases, crashed>>

\* js_on_uncaught_exception: the host registers or clears the callback.
js_on_uncaught_exception ==
  \E cb \in {NULL, "cb"} :
    /\ ~crashed
    /\ stack = <<>>
    /\ cb # uncaught_exception
    /\ uncaught_exception' = cb
    /\ ret' = NoRet
    /\ probes' = <<>>
    /\ UNCHANGED <<extVars, refVars, scopes, depth, exception, jobs, stack, budget, returned, releases, crashed>>

\* js_throw_error (js_throw alike): refused while an exception is pending.
js_throw_error ==
  \E error \in {HostError} :
    /\ HostTurn
    /\ IF stack = <<>> THEN TRUE ELSE Top.kind \in {"native", "construct"}
    /\ exception' = IF exception # JS_UNINITIALIZED THEN exception ELSE error
    /\ ret' = NoRet
    /\ probes' = <<>>
    /\ UNCHANGED <<extVars, refVars, scopes, depth, jobs, uncaught_exception, stack, budget, returned, releases, crashed>>

\* The stubs of operations this engine does not support.
UnsupportedStubs ==
  {"js_create_context", "js_create_threadsafe_function", "js_ref_threadsafe_function",
   "js_get_heap_statistics", "js_create_inspector"}

\* What the stub's call of js_throw_error returns.
ThrowErrorStatus(slot) == IF slot # JS_UNINITIALIZED THEN js__error(slot) ELSE js_ok

\* An unsupported-operation stub: err = js_throw_error(...); assert(err == 0);
\* return js__error(env). The assert fails when js_throw_error refused; the
\* process then aborts in a build that keeps asserts and goes on to the
\* return in one that compiles them out.
js_unsupported ==
  \E fn \in UnsupportedStubs :
    /\ HostTurn
    /\ IF stack = <<>> THEN TRUE ELSE Top.kind \in {"native", "construct"}
    /\ exception' = IF exception # JS_UNINITIALIZED THEN exception ELSE UnsupportedError
    /\ crashed' \in (IF ThrowErrorStatus(exception) = js_ok THEN {FALSE} ELSE BOOLEAN)
    /\ ret' = Returned(ApiFrame(fn, "entry"),
                       IF crashed' THEN "SIGABRT" ELSE js__error(exception'), FALSE)
    /\ probes' = <<>>
    /\ UNCHANGED <<extVars, refVars, scopes, depth, jobs, uncaught_exception, stack, budget, returned, releases>>

\* An exception query right after a top-level call returned is recorded.
Probing == stack = <<>> /\ ret # NoRet /\ Len(probes) < MaxProbes

js_is_exception_pending ==
  /\ HostTurn
  /\ Probing
  /\ probes' = Append(probes, [op |-> "js_is_exception_pending",
                               result |-> IF exception # JS_UNINITIALIZED THEN "true" ELSE "false"])
  /\ UNCHANGED <<extVars, refVars, scopes, depth, exception, jobs, uncaught_exception, stack, budget, ret, returned, releases, crashed>>

\* The value is handed out in a wrapper; the wrapper's place in the handle
\* scope is not followed here.
js_get_and_clear_last_exception ==
  /\ HostTurn
  /\ exception' = JS_UNINITIALIZED
  /\ IF Probing
     THEN /\ probes' = Append(probes, [op |-> "js_get_and_clear_last_exception",
                                       result |-> IF exception = JS_UNINITIALIZED THEN JS_UNDEFINED ELSE exception])
          /\ UNCHANGED ret
     ELSE /\ exception # JS_UNINITIALIZED
          /\ probes' = <<>>
          /\ ret' = NoRet
  /\ UNCHANGED <<extVars, refVars, scopes, depth, jobs, uncaught_exception, stack, budget, returned, releases, crashed>>

\* ------------------------------------------- native function call bridge

\* v names an object the engine has already freed.
Dangling(h, v) == IsObjectLike(v) /\ h.st[v] # "alive"

\* One JS_FreeValue js.c makes on a wrapper's value: acc carries the heap,
\* the release counts and whether freed engine memory was touched.
ReleaseWrapper(acc, v) ==
  [h |-> IF Dangling(acc.h, v) THEN acc.h ELSE JS_FreeValue(acc.h, v),
   rel |-> IF IsObjectLike(v) THEN [acc.rel EXCEPT ![v] = @ + 1] ELSE acc.rel,
   uaf |-> acc.uaf \/ Dangling(acc.h, v)]

RECURSIVE ReleaseWrappers(_, _)
ReleaseWrappers(acc, values) ==
  IF values = <<>> THEN acc
  ELSE ReleaseWrappers(ReleaseWrapper(acc, Head(values)), Tail(values))

\* Mutant: the bridge leaves its handle scope open.
CloseCallbackScope_Leak(chain) == chain

\* The bridge's js_close_handle_scope, as it acts on env->scope's chain.
CloseCallbackScope(chain) == Pop(chain)

\* js__on_function_call up to the host callback: the running script calls a
\* native function, the bridge opens a handle scope and enters the callback.
js__on_function_call ==
  /\ ScriptTurn
  /\ Top.mode = "run"
  /\ returned = NULL
  /\ budget > 0
  /\ budget' = budget - 1
  /\ scopes' = Append(scopes, <<>>)
  /\ stack' = Append(stack, NativeFrame)
  /\ ret' = NoRet
  /\ UNCHANGED <<extVars, refVars, depth, exception, jobs, uncaught_exception, probes, returned, releases, crashed>>

\* js__on_function_call from the callback's return on; result is the index in
\* the callback's handle scope of the wrapper it returns, 0 for NULL. A
\* JS_FreeValue on a freed object is undefined: the process may die or go on.
js__on_function_call_return ==
  /\ ~crashed
  /\ stack # <<>>
  /\ Top.kind = "native"
  /\ \E result \in 0..Len(TopScope) :
       LET acc0 == [h |-> Heap, rel |-> releases, uaf |-> FALSE]
           failed == exception # JS_UNINITIALIZED
           value == IF result = 0 THEN JS_UNDEFINED ELSE TopScope[result]
           acc1 == IF failed
                   THEN (IF result # 0 THEN ReleaseWrapper(acc0, value) ELSE acc0)
                   ELSE [acc0 EXCEPT !.h = JS_DupValue(@, value)]
           acc2 == ReleaseWrappers(acc1, TopScope)
       IN /\ SetHeap(acc2.h)
          /\ releases' = acc2.rel
          /\ crashed' \in (IF acc2.uaf THEN BOOLEAN ELSE {FALSE})
          /\ returned' = IF failed THEN JS_EXCEPTION ELSE value
  /\ scopes' = CloseCallbackScope(scopes)
  /\ stack' = Pop(stack)
  /\ ret' = NoRet
  /\ probes' = <<>>
  /\ UNCHANGED <<extVars, wraps, lastGet, lastChange, depth, exception, jobs, uncaught_exception, budget>>

\* js__on_constructor_call up to the host callback: the running script (or
\* JS_CallConstructor itself) constructs an instance of a native class; the
\* bridge creates the receiver, opens a handle scope and enters the callback.
js__on_constructor_call ==
  /\ ScriptTurn
  /\ Top.mode = "run"
  /\ returned = NULL
  /\ budget > 0
  /\ budget' = budget - 1
  /\ scopes' = Append(scopes, <<>>)
  /\ stack' = Append(stack, ConstructorFrame)
  /\ ret' = NoRet
  /\ UNCHANGED <<extVars, refVars, depth, exception, jobs, uncaught_exception, probes, returned, releases, crashed>>

\* js__on_constructor_call from the callback's return on: the callback's
\* result is duplicated and, with an exception pending, freed again; the
\* scope is closed; the receiver is what the engine gets.
js__on_constructor_call_return ==
  /\ ~crashed
  /\ stack # <<>>
  /\ Top.kind = "construct"
  /\ \E result \in 0..Len(TopScope) :
       LET acc0 == [h |-> Heap, rel |-> releases, uaf |-> FALSE]
           failed == exception # JS_UNINITIALIZED
           value == IF result = 0 THEN JS_UNDEFINED ELSE TopScope[result]
           acc1 == IF failed
                   THEN [acc0 EXCEPT !.h = JS_FreeValue(JS_DupValue(@, value), value)]
                   ELSE [acc0 EXCEPT !.h = JS_DupValue(@, value)]
           acc2 == ReleaseWrappers(acc1, TopScope)
       IN /\ SetHeap(acc2.h)
          /\ releases' = acc2.rel
          /\ crashed' \in (IF acc2.uaf THEN BOOLEAN ELSE {FALSE})
  /\ returned' = Receiver
  /\ scopes' = CloseCallbackScope(scopes)
  /\ stack' = Pop(stack)
  /\ ret' = NoRet
  /\ probes' = <<>>
  /\ UNCHANGED <<extVars, wraps, lastGet, lastChange, depth, exception, jobs, uncaught_exception, budget>>

\* ------------------------------------------------------ SpecExec, SpecBridge

\* Execution: the host calls script-executing APIs, the engine runs script,
\* jobs and native functions, the host's callbacks call back in.
NextExec ==
  \/ js_run_script
  \/ js_call_function
  \/ js_call_function_with_checkpoint
  \/ js_new_instance
  \/ js_property
  \/ js_run_module
  \/ js_instantiate_module
  \/ js__conclude_deferred
  \/ ScriptEnqueue
  \/ ScriptCatch
  \/ ScriptDrop
  \/ ScriptReturn
  \/ ApiCheckpoint
  \/ js__on_run_microtasks
  \/ ApiFinish
  \/ ApiReturn
  \/ uncaught_exception_return
  \/ js_on_uncaught_exception
  \/ js_throw_error
  \/ js_is_exception_pending
  \/ js_get_and_clear_last_exception
  \/ js__on_function_call
  \/ js__on_function_call_return

SpecExec == Init /\ [][NextExec]_vars

\* The bridge: scripts run by js_call_function call native functions whose
\* callbacks create values, throw, call back in and return wrappers.
BridgeCreateObject == HostTurn /\ js_create_object

BridgeCreateInt32 == HostTurn /\ js_create_int32

NextBridge ==
  \/ js_call_function
  \/ js_new_instance
  \/ js__on_function_call
  \/ js__on_constructor_call
  \/ js__on_constructor_call_return
  \/ js_unsupported
  \/ BridgeCreateObject
  \/ BridgeCreateInt32
  \/ js_throw_error
  \/ js_get_and_clear_last_exception
  \/ js__on_function_call_return
  \/ ScriptCatch
  \/ ScriptDrop
  \/ ScriptReturn
  \/ ApiCheckpoint
  \/ js__on_run_microtasks
  \/ ApiFinish

SpecBridge == Init /\ [][NextBridge]_vars

\* --------------------------------------------------------------- type tags

NativeTypeTag == "__native_type_tag"

\* The tag is owned by a hidden property whose class finalizer frees it and
\* calls nothing.
DefineTypeTag(h, o, tag) ==
  [h EXCEPT !.props[o] = @ \cup
     {[key |-> NativeTypeTag, data |-> NULL, finalize_cb |-> NULL, finalize_hint |-> NULL, tag |-> tag]}]

js_add_type_tag ==
  \E o \in Held \cap Objects, tag \in TypeTags :
    /\ HostTurn
    /\ LET already == HasExternal(Heap, o, NativeTypeTag)
           slot == IF exception # JS_UNINITIALIZED THEN exception
                   ELSE IF already THEN TagError ELSE JS_UNINITIALIZED
           status == IF slot # JS_UNINITIALIZED THEN js__error(slot) ELSE js_ok
       IN /\ exception' = slot
          /\ SetHeap(IF status = js_ok THEN DefineTypeTag(Heap, o, tag) ELSE Heap)
          /\ tagLog' = IF status = js_ok THEN [tagLog EXCEPT ![o] = Append(@, tag)] ELSE tagLog
          /\ tagRefused' = IF slot = TagError /\ exception = JS_UNINITIALIZED
                           THEN tagRefused \cup {o} ELSE tagRefused
          /\ lastTag' = [op |-> "js_add_type_tag", obj |-> o, tag |-> tag, already |-> already,
                         status |-> status, pending |-> slot]
    /\ lastGet' = NoGet
    /\ UNCHANGED <<apiVars, infoVars, rejVars, bufVars, envVars, addLog, scopes, wraps, lastChange, depth, jobs, uncaught_exception, stack,
                   budget, ret, probes, returned, releases, crashed>>

\* Mutant: only the lower halves are compared.
CheckTypeTag_LowerOnly(h, o, tag) ==
  /\ HasExternal(h, o, NativeTypeTag)
  /\ GetExternal(h, o, NativeTypeTag).tag.lower = tag.lower

\* The value js_check_type_tag stores in *result.
CheckTypeTag(h, o, tag) ==
  /\ HasExternal(h, o, NativeTypeTag)
  /\ GetExternal(h, o, NativeTypeTag).tag.lower = tag.lower
  /\ GetExternal(h, o, NativeTypeTag).tag.upper = tag.upper

js_check_type_tag ==
  \E o \in Held \cap Objects, tag \in TypeTags :
    /\ HostTurn
    /\ lastTag' = IF exception # JS_UNINITIALIZED
                  THEN [op |-> "js_check_type_tag", obj |-> o, tag |-> tag,
                        status |-> js__error(exception), result |-> FALSE]
                  ELSE [op |-> "js_check_type_tag", obj |-> o, tag |-> tag,
                        status |-> js_ok, result |-> CheckTypeTag(Heap, o, tag)]
    /\ lastGet' = NoGet
    /\ UNCHANGED <<apiVars, infoVars, rejVars, bufVars, envVars, addLog, tagLog, tagRefused, objState, objRc, objProps, refs, finalizeLog, scopes, wraps,
                   lastChange, ctlVars>>

\* Type tags: tagging and checking an object held in a handle scope, with the
\* host throwing and clearing exceptions in between.
NextTag ==
  \/ js_open_handle_scope
  \/ js_close_handle_scope
  \/ js_create_object
  \/ js_add_type_tag
  \/ js_check_type_tag
  \/ js_throw_error
  \/ js_get_and_clear_last_exception

SpecTag == Init /\ [][NextTag]_vars

\* ---------------------------------------------------------- backing stores

\* js_get_arraybuffer_backing_store: a new store with one count, holding a
\* reference to the array buffer it was taken from (the owner).
js_get_arraybuffer_backing_store ==
  \E b \in Stores :
    /\ HostTurn
    /\ stores[b].state = "none"
    /\ stores' = [stores EXCEPT ![b] = [state |-> "live", references |-> 1, released |-> FALSE, ownerFrees |-> 0]]
    /\ UNCHANGED <<apiVars, infoVars, tagVars, rejVars, envVars, buffers, headers, refVars, scopes, ctlVars>>

\* Mutant: the count is dropped but the store is never let go.
DropStoreReference_NoFree(store) ==
  [store EXCEPT !.references = @ - 1]

\* --references == 0: release the owner and free the store.
DropStoreReference(store) ==
  IF store.references - 1 = 0
  THEN [store EXCEPT !.references = 0, !.ownerFrees = @ + 1, !.state = "freed"]
  ELSE [store EXCEPT !.references = @ - 1]

\* The new array buffer's wrapper goes to the current handle scope; where the
\* engine keeps the value is not followed, it is collected at any later time.
js_create_arraybuffer_with_backing_store ==
  \E b \in Stores, a \in Buffers :
    /\ HostTurn
    /\ stores[b].state = "live"
    /\ stores[b].references < MaxReferences
    /\ buffers[a].state = "none"
    /\ IF exception # JS_UNINITIALIZED
       THEN UNCHANGED <<stores, buffers>>
       ELSE /\ stores' = [stores EXCEPT ![b].references = @ + 1]
            /\ buffers' = [buffers EXCEPT ![a] = [state |-> "alive", store |-> b]]
    /\ UNCHANGED <<apiVars, infoVars, tagVars, rejVars, envVars, headers, refVars, scopes, ctlVars>>

\* The engine collects an array buffer created from a store.
js__on_backed_arraybuffer_finalize ==
  \E a \in Buffers :
    /\ ~crashed
    /\ buffers[a].state = "alive"
    /\ buffers' = [buffers EXCEPT ![a].state = "finalized"]
    /\ stores' = [stores EXCEPT ![buffers[a].store] = DropStoreReference(@)]
    /\ UNCHANGED <<apiVars, infoVars, tagVars, rejVars, envVars, headers, refVars, scopes, ctlVars>>

\* The host gives up the count js_get_arraybuffer_backing_store handed it.
js_release_arraybuffer_backing_store ==
  \E b \in Stores :
    /\ HostTurn
    /\ stores[b].state = "live"
    /\ ~stores[b].released
    /\ stores' = [stores EXCEPT ![b] = DropStoreReference([@ EXCEPT !.released = TRUE])]
    /\ UNCHANGED <<apiVars, infoVars, tagVars, rejVars, envVars, buffers, headers, refVars, scopes, ctlVars>>

NextStore ==
  \/ js_get_arraybuffer_backing_store
  \/ js_create_arraybuffer_with_backing_store
  \/ js__on_backed_arraybuffer_finalize
  \/ js_release_arraybuffer_backing_store
  \/ js_throw_error
  \/ js_get_and_clear_last_exception

SpecStore == Init /\ [][NextStore]_vars

\* ------------------------------------------------ SharedArrayBuffer payloads

\* Mutant: the header starts with one count, as js__on_shared_malloc's does.
NewHeader_Counted(origin) ==
  [state |-> "live", references |-> 1, holders |-> 0, origin |-> origin]

\* The header js_create_sharedarraybuffer and
\* js_create_unsafe_sharedarraybuffer allocate: no count yet.
NewHeader(origin) ==
  [state |-> "live", references |-> 0, holders |-> 0, origin |-> origin]

\* js__on_shared_dup, for a new holder of the payload.
SharedDup(header) ==
  [header EXCEPT !.references = @ + 1, !.holders = @ + 1]

\* js__on_shared_free, for a holder letting go.
SharedFree(header) ==
  IF header.references - 1 = 0
  THEN [header EXCEPT !.references = 0, !.holders = @ - 1, !.state = "freed"]
  ELSE [header EXCEPT !.references = @ - 1, !.holders = @ - 1]

\* The engine allocates the payload of a SharedArrayBuffer it creates itself
\* and is its first holder.
js__on_shared_malloc ==
  \E m \in Payloads :
    /\ ~crashed
    /\ headers[m].state = "none"
    /\ headers' = [headers EXCEPT ![m] = [state |-> "live", references |-> 1, holders |-> 1,
                                          origin |-> "js__on_shared_malloc"]]
    /\ UNCHANGED <<apiVars, infoVars, tagVars, rejVars, envVars, stores, buffers, refVars, scopes, ctlVars>>

\* js_create_sharedarraybuffer and js_create_unsafe_sharedarraybuffer (which
\* only skips the zeroing): JS_NewArrayBuffer with bytes it did not allocate
\* takes its hold on a shared payload through the dup hook.
js_create_sharedarraybuffer ==
  \E m \in Payloads, fn \in {"js_create_sharedarraybuffer", "js_create_unsafe_sharedarraybuffer"} :
    /\ HostTurn
    /\ headers[m].state = "none"
    /\ IF exception # JS_UNINITIALIZED
       THEN UNCHANGED headers
       ELSE headers' = [headers EXCEPT ![m] = SharedDup(NewHeader(fn))]
    /\ UNCHANGED <<apiVars, infoVars, tagVars, rejVars, envVars, stores, buffers, refVars, scopes, ctlVars>>

\* The engine hands the payload to another holder (a transfer to an agent).
js__on_shared_dup ==
  \E m \in Payloads :
    /\ ~crashed
    /\ headers[m].state = "live"
    /\ headers[m].holders > 0
    /\ headers[m].holders < MaxReferences
    /\ headers' = [headers EXCEPT ![m] = SharedDup(@)]
    /\ UNCHANGED <<apiVars, infoVars, tagVars, rejVars, envVars, stores, buffers, refVars, scopes, ctlVars>>

\* A holder's SharedArrayBuffer is collected.
js__on_shared_free ==
  \E m \in Payloads :
    /\ ~crashed
    /\ headers[m].state = "live"
    /\ headers[m].holders > 0
    /\ headers' = [headers EXCEPT ![m] = SharedFree(@)]
    /\ UNCHANGED <<apiVars, infoVars, tagVars, rejVars, envVars, stores, buffers, refVars, scopes, ctlVars>>

NextShared ==
  \/ js__on_shared_malloc
  \/ js_create_sharedarraybuffer
  \/ js__on_shared_dup
  \/ js__on_shared_free
  \/ js_throw_error
  \/ js_get_and_clear_last_exception

SpecShared == Init /\ [][NextShared]_vars

\* ---------------------------------------------------------------- teardown

\* The host can call the API: from the loop, or from a teardown callback.
EnvHostTurn ==
  /\ HostTurn
  /\ \/ env_state \in {"running", "destroyed"}
     \/ env_state = "walking" /\ current # NoTask

IsQueued(queue, t) == \E i \in 1..Len(queue) : queue[i].id = t

\* intrusive_list_remove of the task named t.
RemoveTask(queue, t) == SelectSeq(queue, LAMBDA task : task.id # t)

\* Mutant: the task is linked at the tail.
PrependTask_Append(queue, task) == Append(queue, task)

\* intrusive_list_prepend.
PrependTask(queue, task) == <<task>> \o queue

\* Mutant: the signal survives the close of its handle.
PendingAfterClose_Kept(pending) == pending

\* uv_close of the teardown handle: it leaves the loop's list of async handles,
\* so a signal still pending on it is never delivered.
PendingAfterClose(pending) == FALSE

\* js__close_env: context and runtime are freed and the three handles closed;
\* their close callbacks come later, a signal still pending on the async
\* handle is dropped by its uv_close.
js__close_env(caller) ==
  /\ env_state' = "closing"
  /\ async_pending' = PendingAfterClose(async_pending)
  /\ closes' = Append(closes, [caller |-> caller, refs |-> env_refs])

js_add_teardown_callback ==
  \E t \in Tasks :
    /\ EnvHostTurn
    /\ ~IsQueued(teardown_queue, t)
    /\ \A i \in 1..Len(registered) : registered[i] # t
    /\ \A i \in 1..Len(teardownLog) : teardownLog[i] # t
    /\ IF exception # JS_UNINITIALIZED
       THEN UNCHANGED <<teardown_queue, registered>>
       ELSE /\ teardown_queue' = PrependTask(teardown_queue, [id |-> t, type |-> "js_immediate_teardown"])
            /\ registered' = IF destroying THEN registered ELSE Append(registered, t)
    /\ UNCHANGED <<env_state, env_refs, destroying, todo, current, async_pending, active_handles, teardownLog, closes, finishes>>
    /\ UNCHANGED <<apiVars, infoVars, tagVars, rejVars, bufVars, refVars, scopes, ctlVars>>

js_remove_teardown_callback ==
  \E t \in Tasks :
    /\ EnvHostTurn
    /\ IF exception # JS_UNINITIALIZED \/ destroying
       THEN UNCHANGED <<teardown_queue, registered>>
       ELSE /\ teardown_queue' = SelectSeq(teardown_queue,
                                    LAMBDA task : ~(task.type = "js_immediate_teardown" /\ task.id = t))
            /\ registered' = SelectSeq(registered, LAMBDA r : r # t)
    /\ UNCHANGED <<env_state, env_refs, destroying, todo, current, async_pending, active_handles, teardownLog, closes, finishes>>
    /\ UNCHANGED <<apiVars, infoVars, tagVars, rejVars, bufVars, refVars, scopes, ctlVars>>

js_add_deferred_teardown_callback ==
  \E t \in Tasks :
    /\ EnvHostTurn
    /\ ~IsQueued(teardown_queue, t)
    /\ \A i \in 1..Len(registered) : registered[i] # t
    /\ \A i \in 1..Len(teardownLog) : teardownLog[i] # t
    /\ IF exception # JS_UNINITIALIZED
       THEN UNCHANGED <<teardown_queue, env_refs>>
       ELSE /\ teardown_queue' = PrependTask(teardown_queue, [id |-> t, type |-> "js_deferred_teardown"])
            /\ env_refs' = env_refs + 1
    /\ UNCHANGED <<env_state, destroying, todo, current, async_pending, active_handles, registered, teardownLog, closes, finishes>>
    /\ UNCHANGED <<apiVars, infoVars, tagVars, rejVars, bufVars, refVars, scopes, ctlVars>>

\* Mutant: the async handle is never signalled.
SignalsTeardown_Never(count, flag) == FALSE

\* --env->refs == 0 && env->destroying, with count the decremented env->refs.
SignalsTeardown(count, flag) == count = 0 /\ flag

\* Mutant: env->refs is left as it is.
RefsAfterFinish_Kept(count) == count

\* --env->refs in js_finish_deferred_teardown_callback.
RefsAfterFinish(count) == count - 1

\* The host finishes a deferred task whose handle it holds; during the walk
\* of js_destroy_env only one the walk has not still to visit.
js_finish_deferred_teardown_callback ==
  \E t \in Tasks :
    /\ EnvHostTurn
    /\ \E i \in 1..Len(teardown_queue) :
         teardown_queue[i].id = t /\ teardown_queue[i].type = "js_deferred_teardown"
    /\ ~IsQueued(todo, t)
    /\ teardown_queue' = RemoveTask(teardown_queue, t)
    /\ env_refs' = RefsAfterFinish(env_refs)
    /\ async_pending' = (async_pending \/ SignalsTeardown(RefsAfterFinish(env_refs), destroying))
    /\ finishes' = [freed |-> finishes.freed \cup {t},
                    last |-> [task |-> t, stale |-> FALSE, status |-> js_ok,
                              removed |-> {q \in Tasks : IsQueued(teardown_queue, q) /\ ~IsQueued(teardown_queue', q)},
                              refs |-> env_refs' - env_refs,
                              signalled |-> SignalsTeardown(RefsAfterFinish(env_refs), destroying),
                              last |-> env_refs' = 0, destroying |-> destroying]]
    /\ UNCHANGED <<env_state, destroying, todo, current, active_handles, registered, teardownLog, closes>>
    /\ UNCHANGED <<apiVars, infoVars, tagVars, rejVars, bufVars, refVars, scopes, ctlVars>>

\* js_finish_deferred_teardown_callback with the handle of a task an earlier
\* call freed: handle->env is read from freed memory. The process may die of
\* it; if the read still yields the env, no task of the queue owns the
\* handle and the call returns -1.
finish_freed_handle ==
  \E t \in finishes.freed :
    /\ EnvHostTurn
    /\ ~IsQueued(teardown_queue, t)
    /\ crashed' \in BOOLEAN
    /\ finishes' = [finishes EXCEPT !.last =
                      [task |-> t, stale |-> TRUE, status |-> IF crashed' THEN "SIGSEGV" ELSE "-1",
                       removed |-> {}, refs |-> 0, signalled |-> FALSE,
                       last |-> env_refs = 0, destroying |-> destroying]]
    /\ UNCHANGED <<env_state, teardown_queue, env_refs, destroying, todo, current, async_pending,
                   active_handles, registered, teardownLog, closes>>
    /\ UNCHANGED <<apiVars, infoVars, tagVars, rejVars, bufVars, refVars, scopes, depth, exception, jobs,
                   uncaught_exception, stack, budget, ret, probes, returned, releases>>

\* js_destroy_env up to its walk of the queue.
js_destroy_env ==
  /\ HostTurn
  /\ env_state = "running"
  /\ destroying' = TRUE
  /\ env_state' = "walking"
  /\ todo' = teardown_queue
  /\ UNCHANGED <<teardown_queue, env_refs, current, async_pending, active_handles, registered, teardownLog, closes, finishes>>
  /\ UNCHANGED <<apiVars, infoVars, tagVars, rejVars, bufVars, refVars, scopes, ctlVars>>

\* The walk enters the callback of the next task.
teardown_callback ==
  /\ env_state = "walking"
  /\ current = NoTask
  /\ todo # <<>>
  /\ current' = Head(todo)
  /\ todo' = Tail(todo)
  /\ teardownLog' = IF Head(todo).type = "js_immediate_teardown"
                    THEN Append(teardownLog, Head(todo).id) ELSE teardownLog
  /\ UNCHANGED <<env_state, teardown_queue, env_refs, destroying, async_pending, active_handles, registered, closes, finishes>>
  /\ UNCHANGED <<apiVars, infoVars, tagVars, rejVars, bufVars, refVars, scopes, ctlVars>>

\* The callback returns: an immediate task is unlinked and freed.
teardown_callback_return ==
  /\ env_state = "walking"
  /\ current # NoTask
  /\ HostTurn
  /\ teardown_queue' = IF current.type = "js_immediate_teardown"
                       THEN RemoveTask(teardown_queue, current.id) ELSE teardown_queue
  /\ current' = NoTask
  /\ UNCHANGED <<env_state, env_refs, destroying, todo, async_pending, active_handles, registered, teardownLog, closes, finishes>>
  /\ UNCHANGED <<apiVars, infoVars, tagVars, rejVars, bufVars, refVars, scopes, ctlVars>>

\* The tail of js_destroy_env: close now, or keep the loop alive for the
\* deferred tasks (uv_ref).
js_destroy_env_return ==
  /\ env_state = "walking"
  /\ current = NoTask
  /\ todo = <<>>
  /\ IF env_refs = 0
     THEN js__close_env("js_destroy_env")
     ELSE /\ env_state' = "destroyed"
          /\ UNCHANGED <<async_pending, closes>>
  /\ UNCHANGED <<teardown_queue, env_refs, destroying, todo, current, active_handles, registered, teardownLog, finishes>>
  /\ UNCHANGED <<apiVars, infoVars, tagVars, rejVars, bufVars, refVars, scopes, ctlVars>>

\* Mutant: the async callback closes whatever env->refs is.
TeardownCloses_Always(count) == TRUE

\* The test js__on_teardown makes before it closes.
TeardownCloses(count) == count = 0

\* The loop runs the callback of the signalled async handle.
js__on_teardown ==
  /\ env_state \in {"destroyed", "closing"}
  /\ stack = <<>>
  /\ async_pending
  /\ IF TeardownCloses(env_refs)
     THEN js__close_env("js__on_teardown")
     ELSE /\ async_pending' = FALSE
          /\ UNCHANGED <<env_state, closes>>
  /\ UNCHANGED <<teardown_queue, env_refs, destroying, todo, current, active_handles, registered, teardownLog, finishes>>
  /\ UNCHANGED <<apiVars, infoVars, tagVars, rejVars, bufVars, refVars, scopes, ctlVars>>

\* The loop runs the close callback of one of the closed handles; the last
\* one frees the env.
js__on_handle_close ==
  /\ env_state = "closing"
  /\ active_handles > 0
  /\ active_handles' = active_handles - 1
  /\ env_state' = IF active_handles - 1 = 0 THEN "freed" ELSE env_state
  /\ UNCHANGED <<teardown_queue, env_refs, destroying, todo, current, async_pending, registered, teardownLog, closes, finishes>>
  /\ UNCHANGED <<apiVars, infoVars, tagVars, rejVars, bufVars, refVars, scopes, ctlVars>>

\* The host throws and clears exceptions while it may use the env.
teardown_throw == EnvHostTurn /\ js_throw_error

teardown_clear == EnvHostTurn /\ js_get_and_clear_last_exception

NextTeardown ==
  \/ js_add_teardown_callback
  \/ js_remove_teardown_callback
  \/ js_add_deferred_teardown_callback
  \/ js_finish_deferred_teardown_callback
  \/ js_destroy_env
  \/ teardown_callback
  \/ teardown_callback_return
  \/ js_destroy_env_return
  \/ js__on_teardown
  \/ js__on_handle_close
  \/ teardown_throw
  \/ teardown_clear

SpecTeardown == Init /\ [][NextTeardown]_vars

\* The same with an embedder that also finishes handles it finished before.
NextFinish ==
  \/ NextTeardown
  \/ finish_freed_handle

SpecFinish == Init /\ [][NextFinish]_vars

\* The same with a fair event loop: teardown callbacks return, js_destroy_env
\* runs to its end, and the loop runs the callbacks of signalled and closed
\* handles.
SpecTeardownFair ==
  /\ SpecTeardown
  /\ WF_vars(teardown_callback)
  /\ WF_vars(teardown_callback_return)
  /\ WF_vars(js_destroy_env_return)
  /\ WF_vars(js__on_teardown)
  /\ WF_vars(js__on_handle_close)

\* Unhandled rejections: script run at top level and from the callback,
\* rejecting promises and attaching handlers, with and without a drain.
NextReject ==
  \/ js_on_unhandled_rejection
  \/ js_run_script
  \/ js_new_instance
  \/ ScriptEnqueue
  \/ ScriptReject
  \/ ScriptHandle
  \/ ScriptReturn
  \/ ApiCheckpoint
  \/ js__on_run_microtasks
  \/ js__on_unhandled_rejection
  \/ unhandled_rejection_return
  \/ ApiFinish

SpecReject == Init /\ [][NextReject]_vars


\* ------------------------------------------------- escapable handle scopes

\* js_open_escapable_handle_scope is js_open_handle_scope under a cast; one
\* escapable scope is followed at a time, opened inside a parent scope.
js_open_escapable_handle_scope ==
  /\ escapable = NoEscapable
  /\ Len(scopes) >= 1
  /\ Len(scopes) < MaxScopes
  /\ scopes' = Append(scopes, <<>>)
  /\ escapable' = [level |-> Len(scopes) + 1, escaped |-> 0]
  /\ lastGet' = NoGet
  /\ UNCHANGED <<objState, objRc, objProps, refs, finalizeLog, wraps, lastChange, ctlVars,
                 strCall, modVars, infoVars, tagVars, rejVars, bufVars, envVars>>

js_close_escapable_handle_scope ==
  /\ escapable.level = Len(scopes)
  /\ Len(scopes) > 0
  /\ SetHeap(FreeValues(Heap, TopScope))
  /\ scopes' = Pop(scopes)
  /\ escapable' = NoEscapable
  /\ lastGet' = NoGet
  /\ UNCHANGED <<wraps, lastChange, ctlVars, strCall, modVars, infoVars, tagVars, rejVars, bufVars, envVars>>

\* The wrappers the host may pass as escapee: those of the escapable scope
\* and of the scopes opened inside it.
Escapees == UNION {{scopes[i][j] : j \in 1..Len(scopes[i])} : i \in escapable.level..Len(scopes)}

\* js_escape_handle(scope, escapee): a new wrapper holding a duplicate of the
\* escapee's value is attached to scope->parent.
js_escape_handle ==
  /\ escapable.level >= 2
  /\ escapable.escaped < MaxEscapes
  /\ Len(scopes[escapable.level - 1]) < MaxWrappers
  /\ \E escapee \in Escapees :
       /\ SetHeap(JS_DupValue(Heap, escapee))
       /\ scopes' = [scopes EXCEPT ![escapable.level - 1] = Append(@, escapee)]
  /\ escapable' = [escapable EXCEPT !.escaped = @ + 1]
  /\ lastGet' = NoGet
  /\ UNCHANGED <<wraps, lastChange, ctlVars, strCall, modVars, infoVars, tagVars, rejVars, bufVars, envVars>>

\* Handle scopes with one escapable scope among them.
NextScope ==
  \/ js_open_handle_scope
  \/ js_close_handle_scope /\ escapable.level # Len(scopes)
  \/ js_create_object
  \/ js_create_int32
  \/ js_open_escapable_handle_scope
  \/ js_escape_handle
  \/ js_close_escapable_handle_scope

SpecScope == Init /\ [][NextScope]_vars


\* --------------------------------- value queries with an exception pending

\* The wrappers the host holds: those of the open handle scopes.
Wrappers == UNION {{scopes[i][j] : j \in 1..Len(scopes[i])} : i \in 1..Len(scopes)}

\* A value query returns 0 with its result; none of them looks at the
\* pending-exception slot before it acts. The result goes to the host and is
\* not kept.
ValueQuery(fn, result, slot) ==
  /\ ~crashed
  /\ stack = <<>>
  /\ result \in {"js_object", "js_number", "true", "false", "int32", "garbage"}
  /\ exception' = slot
  /\ UNCHANGED <<refVars, scopes, depth, jobs, uncaught_exception, stack, budget, ret, probes,
                 returned, releases, crashed, apiVars, infoVars, tagVars, rejVars, bufVars, envVars>>

js_typeof ==
  \E value \in Wrappers :
    ValueQuery("js_typeof", IF IsObjectLike(value) THEN "js_object" ELSE "js_number", exception)

js_is_object ==
  \E value \in Wrappers :
    ValueQuery("js_is_object", IF IsObjectLike(value) THEN "true" ELSE "false", exception)

\* JS_ToInt32 of the engine: a number converts as it is; an object is first
\* converted to a primitive, which the engine refuses with a TypeError for
\* an object that has no conversion, and a throw replaces what is pending.
JS_ToInt32(value, slot) ==
  IF IsObjectLike(value)
  THEN {[result |-> "garbage", slot |-> ConversionError], [result |-> "int32", slot |-> slot]}
  ELSE {[result |-> "int32", slot |-> slot]}

\* js_get_value_int32: the outcome of JS_ToInt32 is not looked at.
js_get_value_int32 ==
  \E value \in Wrappers :
    \E outcome \in JS_ToInt32(value, exception) :
      ValueQuery("js_get_value_int32", outcome.result, outcome.slot)

\* The host of SpecPending creates one js_ref_t at a time.
OneReference == Cardinality({r \in RefIds : refs'[r].state # "unused"}) <= 1

\* The host with an exception it may have left pending: handle scopes,
\* references and value queries, none of which refuses then.
AllowedWhilePending ==
  \/ js_open_handle_scope
  \/ js_close_handle_scope /\ escapable.level # Len(scopes)
  \/ js_open_escapable_handle_scope
  \/ js_escape_handle
  \/ js_close_escapable_handle_scope
  \/ js_create_reference /\ OneReference
  \/ js_delete_reference
  \/ js_reference_ref
  \/ js_reference_unref
  \/ js_get_reference_value
  \/ js_typeof
  \/ js_is_object
  \/ js_get_value_int32

NextPending ==
  \/ AllowedWhilePending
  \/ js_create_object
  \/ js_create_int32
  \/ js_throw_error
  \/ js_get_and_clear_last_exception

SpecPending == Init /\ [][NextPending]_vars


\* --------------------------------------------------------- string extractors

Min(a, b) == IF a < b THEN a ELSE b

\* Code units of one character in each encoding.
Utf8Units(c) == IF c = "a" THEN 1 ELSE IF c = "e_acute" THEN 2 ELSE 4

Utf16Units(c) == IF c = "grinning_face" THEN 2 ELSE 1

Latin1Units(c) == 1

\* JS_ToCStringLen: the length of the string's UTF-8 form.
RECURSIVE JS_ToCStringLen(_)
JS_ToCStringLen(chars) ==
  IF chars = <<>> THEN 0 ELSE Utf8Units(Head(chars)) + JS_ToCStringLen(Tail(chars))

RECURSIVE utf16_length_from_utf8(_)
utf16_length_from_utf8(chars) ==
  IF chars = <<>> THEN 0 ELSE Utf16Units(Head(chars)) + utf16_length_from_utf8(Tail(chars))

RECURSIVE latin1_length_from_utf8(_)
latin1_length_from_utf8(chars) ==
  IF chars = <<>> THEN 0 ELSE Latin1Units(Head(chars)) + latin1_length_from_utf8(Tail(chars))

\* The strings and buffers the host passes: str is NULL or a buffer of len
\* code units.
Strings == UNION {[1..n -> Chars] : n \in 0..MaxChars}

BufferArgs == [str : {NULL, "buffer"}, len : 0..MaxCapacity]

\* The body the three extractors share. required is the string's length in
\* the encoding; stored is the number of code units the copy or conversion
\* puts into str, counted from str[0]; terminated tells whether a '\0' was
\* stored after them; result is *result.
GetValueString(fn, chars, arg, required, stored) ==
  /\ ~crashed
  /\ stack = <<>>
  /\ strCall' =
       IF arg.str = NULL
       THEN [fn |-> fn, chars |-> chars, arg |-> arg, required |-> required,
             stored |-> 0, terminated |-> FALSE, result |-> required]
       ELSE IF arg.len # 0
       THEN [fn |-> fn, chars |-> chars, arg |-> arg, required |-> required,
             stored |-> stored, terminated |-> Min(required, arg.len) < arg.len,
             result |-> Min(required, arg.len)]
       ELSE [fn |-> fn, chars |-> chars, arg |-> arg, required |-> required,
             stored |-> 0, terminated |-> FALSE, result |-> 0]
  \* A store past the end of str is undefined behaviour: the process may die
  \* of it or go on with its memory overwritten.
  /\ crashed' \in (IF arg.str # NULL /\ arg.len # 0 /\ stored > arg.len THEN BOOLEAN ELSE {FALSE})
  /\ UNCHANGED <<refVars, scopes, depth, exception, jobs, uncaught_exception, stack, budget, ret,
                 probes, returned, releases, escapable, modVars, infoVars, tagVars, rejVars, bufVars, envVars>>

\* memcpy(str, cstr, written) with written = min(cstr_len, len).
js_get_value_string_utf8 ==
  \E chars \in Strings, arg \in BufferArgs :
    GetValueString("js_get_value_string_utf8", chars, arg, JS_ToCStringLen(chars),
                   Min(JS_ToCStringLen(chars), arg.len))

\* utf8_convert_to_utf16le(cstr, cstr_len, str) converts the whole string.
js_get_value_string_utf16le ==
  \E chars \in Strings, arg \in BufferArgs :
    GetValueString("js_get_value_string_utf16le", chars, arg, utf16_length_from_utf8(chars),
                   utf16_length_from_utf8(chars))

\* utf8_convert_to_latin1(cstr, cstr_len, str) converts the whole string.
js_get_value_string_latin1 ==
  \E chars \in Strings, arg \in BufferArgs :
    GetValueString("js_get_value_string_latin1", chars, arg, latin1_length_from_utf8(chars),
                   latin1_length_from_utf8(chars))

NextString ==
  \/ js_get_value_string_utf8
  \/ js_get_value_string_utf16le
  \/ js_get_value_string_latin1

SpecString == Init /\ [][NextString]_vars


\* ------------------------------------------------------ module instantiation

\* A call of js_instantiate_module that is compiling its module. The resolver
\* record is a local of this call; entryResolvers is history: env->resolvers
\* when the call was entered. nested: the call was made by
\* js__on_resolve_module. failed: an import could not be resolved.
InstantiateFrame(module, nested) ==
  [kind |-> "instantiate", module |-> module, nested |-> nested, failed |-> FALSE,
   entryResolvers |-> resolvers]

\* live: the call whose local the record is has not returned.
ResolverRecord(module) == [module |-> module, live |-> TRUE]

\* js_instantiate_module called by the host, up to JS_Eval: refused with an
\* exception pending, nothing to do for a synthetic module, else the call's
\* resolver record is pushed and the depth raised.
instantiate_module_enter ==
  \E module \in Modules, synthetic \in BOOLEAN :
    /\ ~crashed
    /\ stack = <<>>
    /\ ~definition[module]
    /\ Len(resolvers) < MaxResolvers
    /\ IF exception # JS_UNINITIALIZED \/ synthetic
       THEN UNCHANGED <<resolvers, depth, stack>>
       ELSE /\ resolvers' = Append(resolvers, ResolverRecord(module))
            /\ depth' = depth + 1
            /\ stack' = Append(stack, InstantiateFrame(module, FALSE))
    /\ UNCHANGED <<refVars, scopes, exception, jobs, uncaught_exception, budget, ret, probes, returned,
                   releases, crashed, escapable, strCall, definition, infoVars, tagVars, rejVars, bufVars, envVars>>

\* js__on_resolve_module: the engine, compiling, meets an import; the
\* callback of env->resolvers names the module (or NULL), and a module that
\* has no definition yet is instantiated from here, inside the handle scope
\* this function opened.
js__on_resolve_module ==
  \E module \in Modules \cup {NULL} :
    /\ ~crashed
    /\ stack # <<>>
    /\ Top.kind = "instantiate"
    /\ ~Top.failed
    /\ IF module = NULL
       THEN /\ stack' = [stack EXCEPT ![Len(stack)].failed = TRUE]
            /\ UNCHANGED <<resolvers, depth, scopes>>
       ELSE /\ ~definition[module]
            /\ \A i \in 1..Len(stack) : stack[i].module # module
            /\ Len(resolvers) < MaxResolvers
            /\ resolvers' = Append(resolvers, ResolverRecord(module))
            /\ depth' = depth + 1
            /\ scopes' = Append(scopes, <<>>)
            /\ stack' = Append(stack, InstantiateFrame(module, TRUE))
    /\ UNCHANGED <<refVars, exception, jobs, uncaught_exception, budget, ret, probes, returned,
                   releases, crashed, escapable, strCall, definition, infoVars, tagVars, rejVars, bufVars, envVars>>

\* env->resolvers when js_instantiate_module returns: resolver.next after a
\* successful compilation; after a failed one it is left as it is and the
\* record of the returning call is dead.
ResolversAfter(chain, f, compiled) ==
  IF compiled THEN f.entryResolvers
  ELSE [chain EXCEPT ![Len(f.entryResolvers) + 1].live = FALSE]

\* js_instantiate_module from the return of JS_Eval on. The compilation
\* fails if an import was not resolved and may fail on its own; the job
\* queue is empty throughout and no uncaught-exception callback is set, so
\* the exception of a failure at depth 0 is taken and thrown back.
instantiate_module_return ==
  \E compiled \in BOOLEAN :
    /\ ~crashed
    /\ stack # <<>>
    /\ Top.kind = "instantiate"
    /\ Top.failed => ~compiled
    /\ uncaught_exception = NULL
    /\ depth' = depth - 1
    /\ exception' = IF compiled \/ exception # JS_UNINITIALIZED THEN exception ELSE OpError
    /\ definition' = IF compiled THEN [definition EXCEPT ![Top.module] = TRUE] ELSE definition
    /\ resolvers' = ResolversAfter(resolvers, Top, compiled)
    /\ IF Top.nested
       THEN /\ scopes' = Pop(scopes)
            /\ stack' = [Pop(stack) EXCEPT ![Len(stack) - 1].failed = ~compiled]
       ELSE /\ stack' = Pop(stack)
            /\ UNCHANGED scopes
    /\ UNCHANGED <<refVars, jobs, uncaught_exception, budget, ret, probes, returned,
                   releases, crashed, escapable, strCall, infoVars, tagVars, rejVars, bufVars, envVars>>

NextModule ==
  \/ instantiate_module_enter
  \/ js__on_resolve_module
  \/ instantiate_module_return
  \/ js_get_and_clear_last_exception

SpecModule == Init /\ [][NextModule]_vars


\* ------------------------------------------------------------ array elements

\* env->depth over the loop of js_set_array_elements and what follows it: d
\* is the depth before element i of n is set, failing the element whose
\* JS_SetPropertyUint32 fails (0: none). Every pass lowers the depth; a
\* failing pass returns, and after the loop the depth is lowered once more.
RECURSIVE SetElementsDepth(_, _, _, _)
SetElementsDepth(d, i, n, failing) ==
  IF i > n THEN d - 1
  ELSE IF i = failing THEN d - 1
  ELSE SetElementsDepth(d - 1, i + 1, n, failing)

\* js_set_array_elements on a plain array: setting an element runs no script.
\* The job queue is empty, so the checkpoints at depth 1 find nothing, and
\* no uncaught-exception callback is set, so the exception of a failure whose
\* pass ends at depth 0 is taken and thrown back.
js_set_array_elements ==
  \E len \in 0..MaxElements :
    \E failing \in 0..len :
      /\ HostTurn
      /\ jobs = 0
      /\ uncaught_exception = NULL
      /\ probes' = <<>>
      /\ IF exception # JS_UNINITIALIZED
         THEN /\ ret' = Returned(ApiFrame("js_set_array_elements", "entry"), js__error(exception), FALSE)
              /\ UNCHANGED <<depth, exception>>
         ELSE /\ SetElementsDepth(depth + 1, 1, len, failing) >= 0 - MaxElements
              /\ depth' = SetElementsDepth(depth + 1, 1, len, failing)
              /\ exception' = IF failing # 0 THEN OpError ELSE exception
              /\ ret' = Returned(ApiFrame("js_set_array_elements", "entry"),
                                 IF failing # 0 THEN js__error(exception') ELSE js_ok, TRUE)
      /\ UNCHANGED <<extVars, refVars, scopes, jobs, uncaught_exception, stack, budget, returned, releases, crashed>>

RECURSIVE AttachElements(_, _)
AttachElements(chain, written) ==
  IF written = 0 THEN chain
  ELSE AttachElements(js__attach_to_handle_scope(chain, Prim), written - 1)

\* js_get_array_elements on a plain array of numbers: the depth is raised
\* once and lowered once on either path; the elements fetched before the one
\* that fails (0: none) are attached to env->scope.
js_get_array_elements ==
  \E len \in 0..MaxElements :
    \E failing \in 0..len :
      LET written == IF failing # 0 THEN failing - 1 ELSE len
      IN /\ HostTurn
         /\ jobs = 0
         /\ uncaught_exception = NULL
         /\ probes' = <<>>
         /\ IF exception # JS_UNINITIALIZED
            THEN /\ ret' = Returned(ApiFrame("js_get_array_elements", "entry"), js__error(exception), FALSE)
                 /\ UNCHANGED <<scopes, exception>>
            ELSE /\ Len(scopes) > 0
                 /\ Len(TopScope) + written <= MaxWrappers
                 /\ scopes' = AttachElements(scopes, written)
                 /\ exception' = IF failing # 0 THEN OpError ELSE exception
                 /\ ret' = Returned(ApiFrame("js_get_array_elements", "entry"),
                                    IF failing # 0 THEN js__error(exception') ELSE js_ok, TRUE)
         /\ UNCHANGED <<extVars, refVars, depth, jobs, uncaught_exception, stack, budget, returned, releases, crashed>>

\* The array and property APIs, called at top level and from inside a
\* native function.
NextArray ==
  \/ js_call_function
  \/ js_property
  \/ js__on_function_call
  \/ js__on_function_call_return
  \/ js_set_array_elements
  \/ js_get_array_elements
  \/ js_get_and_clear_last_exception
  \/ ScriptDrop
  \/ ScriptReturn
  \/ ApiCheckpoint
  \/ js__on_run_microtasks
  \/ ApiFinish

SpecArray == Init /\ [][NextArray]_vars

\* --------------------------------------------------------- callback info

\* The values a script passes to a native function.
ArgValues == {Prim, JS_NULL} \cup Objects

ArgLists == UNION {[1..n -> ArgValues] : n \in 0..MaxArgs}

\* js__on_function_call up to the host callback, with the arguments of the
\* call: callback_info.argc and .argv are the engine's argc and argv. An
\* object among them is one the script just created and holds a reference on.
\* The script that makes the call is not followed.
js__on_function_call_args ==
  \E argv \in ArgLists :
    /\ ~crashed
    /\ stack = <<>>
    /\ returned = NULL
    /\ \A o \in Objects : (\E i \in 1..Len(argv) : argv[i] = o) => objState[o] = "none"
    /\ objState' = [o \in Objects |-> IF \E i \in 1..Len(argv) : argv[i] = o THEN "alive" ELSE objState[o]]
    /\ objRc' = [o \in Objects |->
                   IF objState[o] = "none" /\ \E i \in 1..Len(argv) : argv[i] = o THEN 1 ELSE objRc[o]]
    /\ scopes' = Append(scopes, <<>>)
    /\ stack' = Append(stack, NativeFrame)
    /\ cbInfo' = [argv |-> argv, call |-> NoInfoCall]
    /\ ret' = NoRet
    /\ UNCHANGED <<objProps, refs, finalizeLog, wraps, lastGet, lastChange, depth, exception, jobs,
                   uncaught_exception, budget, probes, returned, releases, crashed,
                   apiVars, hook, names, tagVars, rejVars, bufVars, envVars>>

\* The first filled arguments, each duplicated and attached to env->scope.
RECURSIVE AttachArgs(_, _, _, _)
AttachArgs(acc, argv, i, filled) ==
  IF i > filled THEN acc
  ELSE AttachArgs([h |-> JS_DupValue(acc.h, argv[i]),
                   chain |-> js__attach_to_handle_scope(acc.chain, argv[i])],
                  argv, i + 1, filled)

\* Mutant: *argc reports the capacity back.
InfoArgc_Capacity(argc, capacity) == capacity

\* What js_get_callback_info stores in *argc.
InfoArgc(argc, capacity) == argc

\* js_get_callback_info with a non-null argv of *argc = capacity entries,
\* with or without receiver. A wrapper is named by its place in the values
\* of env->scope.
js_get_callback_info ==
  \E capacity \in 0..MaxCapacity, receiver \in BOOLEAN :
    /\ HostTurn
    /\ stack # <<>>
    /\ Top.kind = "native"
    /\ Len(TopScope) <= MaxCapacity + 1
    /\ LET argc == Len(cbInfo.argv)
           n == Min(argc, capacity)
           base == Len(TopScope)
           args == AttachArgs([h |-> Heap, chain |-> scopes], cbInfo.argv, 1, n)
           padded == IF n < capacity
                     THEN js__attach_to_handle_scope(args.chain, JS_UNDEFINED)
                     ELSE args.chain
       IN /\ SetHeap(args.h)
          /\ scopes' = IF receiver THEN js__attach_to_handle_scope(padded, Receiver) ELSE padded
          /\ cbInfo' = [cbInfo EXCEPT !.call =
                          [capacity |-> capacity,
                           argv |-> [i \in 1..capacity |-> IF i <= n THEN base + i ELSE base + n + 1],
                           argc |-> InfoArgc(argc, capacity),
                           receiver |-> IF receiver THEN Len(scopes'[Len(scopes')]) ELSE 0]]
    /\ UNCHANGED <<wraps, lastGet, lastChange, ctlVars, apiVars, hook, names, tagVars, rejVars, bufVars, envVars>>

\* Native functions called with arguments, whose callbacks ask for them.
NextInfo ==
  \/ js__on_function_call_args
  \/ js_get_callback_info
  \/ js__on_function_call_return

SpecInfo == Init /\ [][NextInfo]_vars

\* ------------------------------------------------------------- delegates

\* The property names a script asks a delegate for.
PropertyNames == {"x", "y"}

\* What a get trap returns: NULL or the wrapper of a value.
TrapResults == {NULL, Prim, JS_NULL, JS_UNDEFINED} \cup Objects

NoDescriptor == [flags |-> NULL]

\* The hook returns status; pending is the exception slot at that time.
HookDone(h, status, pending, descriptor) ==
  [h EXCEPT !.pc = "done", !.status = status, !.pending = pending, !.out = descriptor]

\* js__on_delegate_get_own_property up to its first trap: the engine, running
\* script with nothing pending, asks a delegate for the own property name.
\* has and get tell which traps the delegate has, descriptor whether the
\* engine passed a descriptor to fill. The script that asks is not followed.
js__on_delegate_get_own_property ==
  \E name \in PropertyNames, has \in BOOLEAN, get \in BOOLEAN, descriptor \in BOOLEAN :
    LET h == [pc |-> "idle", name |-> name, has |-> has, get |-> get, descriptor |-> descriptor,
              exists |-> NULL, result |-> NULL, status |-> NULL, pending |-> NULL, out |-> NoDescriptor]
    IN /\ ~crashed
       /\ stack = <<>>
       /\ hook.pc \in {"idle", "done"}
       /\ exception = JS_UNINITIALIZED
       /\ hook' = IF has THEN [h EXCEPT !.pc = "has"]
                  ELSE IF get THEN [h EXCEPT !.pc = "get"]
                  ELSE HookDone(h, "0", exception, NoDescriptor)
       /\ UNCHANGED <<refVars, scopes, ctlVars, apiVars, cbInfo, names, tagVars, rejVars, bufVars, envVars>>

\* Mutant: the has trap's answer is ignored.
HasTrapAllows_Always(exists) == TRUE

\* The test made on the has trap's answer.
HasTrapAllows(exists) == exists

\* The has trap returns exists, having thrown or not; the hook goes on.
delegate_has_return ==
  \E exists \in BOOLEAN, thrown \in BOOLEAN :
    /\ ~crashed
    /\ hook.pc = "has"
    /\ exception' = IF thrown THEN HostError ELSE exception
    /\ LET h == [hook EXCEPT !.exists = exists]
       IN hook' = IF exception' # JS_UNINITIALIZED THEN HookDone(h, js__error(exception'), exception', NoDescriptor)
                  ELSE IF ~HasTrapAllows(exists) THEN HookDone(h, "0", exception', NoDescriptor)
                  ELSE IF h.get THEN [h EXCEPT !.pc = "get"]
                  ELSE HookDone(h, "0", exception', NoDescriptor)
    /\ UNCHANGED <<refVars, scopes, depth, jobs, uncaught_exception, stack, budget, ret, probes, returned,
                   releases, crashed, apiVars, cbInfo, names, tagVars, rejVars, bufVars, envVars>>

\* The get trap returns result, having thrown or not; the hook fills the
\* descriptor, if it was given one, and returns.
delegate_get_return ==
  \E result \in TrapResults, thrown \in BOOLEAN :
    /\ ~crashed
    /\ hook.pc = "get"
    /\ exception' = IF thrown THEN HostError ELSE exception
    /\ LET h == [hook EXCEPT !.result = result]
       IN hook' = IF exception' # JS_UNINITIALIZED THEN HookDone(h, js__error(exception'), exception', NoDescriptor)
                  ELSE IF result = NULL THEN HookDone(h, "0", exception', NoDescriptor)
                  ELSE HookDone(h, "1", exception',
                                IF h.descriptor
                                THEN [flags |-> "JS_PROP_ENUMERABLE", value |-> result,
                                      getter |-> JS_UNDEFINED, setter |-> JS_UNDEFINED]
                                ELSE NoDescriptor)
    /\ UNCHANGED <<refVars, scopes, depth, jobs, uncaught_exception, stack, budget, ret, probes, returned,
                   releases, crashed, apiVars, cbInfo, names, tagVars, rejVars, bufVars, envVars>>

\* A script reads own properties of delegates.
NextDelegate ==
  \/ js__on_delegate_get_own_property
  \/ delegate_has_return
  \/ delegate_get_return

SpecDelegate == Init /\ [][NextDelegate]_vars

\* -------------------------------------------------------- property names

\* The decimal string of an array index.
IndexName(i) ==
  CASE i = 0 -> "0" [] i = 1 -> "1" [] i = 2 -> "2" [] i = 3 -> "3" [] i = 4 -> "4" [] OTHER -> "5"

\* JS_GetOwnPropertyNames with JS_GPN_ENUM_ONLY | JS_GPN_STRING_MASK: the
\* array indices in ascending order, then the other string keys in creation
\* order.
JS_GetOwnPropertyNames(object) ==
  [i \in 1..Len(object.index) |-> IndexName(i - 1)] \o object.named

\* js_set_named_property on the object, for a name it does not have yet; no
\* setter runs and the job queue is empty.
js_set_named_property ==
  \E name \in PropertyNames :
    /\ ~crashed
    /\ stack = <<>>
    /\ exception = JS_UNINITIALIZED
    /\ \A i \in 1..Len(names.object.named) : names.object.named[i] # name
    /\ Len(JS_GetOwnPropertyNames(names.object)) < MaxNames
    /\ names' = [names EXCEPT !.object.named = Append(@, name)]
    /\ UNCHANGED <<refVars, scopes, ctlVars, apiVars, cbInfo, hook, tagVars, rejVars, bufVars, envVars>>

\* The loop of js_get_property_names after written successful passes:
\* JS_SetPropertyUint32(object->value, i, name) for i below written.
StoreNames(target, properties, written) ==
  [target EXCEPT !.object.index =
     [i \in 1..(IF written > Len(@) THEN written ELSE Len(@)) |->
        IF i <= written THEN properties[i] ELSE @[i]]]

\* js_get_property_names on the object with a non-null result, at top level
\* with an empty job queue, so that its checkpoint finds nothing. failing is
\* the pass of the loop whose store fails, 0 if none does.
js_get_property_names ==
  LET properties == JS_GetOwnPropertyNames(names.object)
      len == Len(properties)
  IN \E failing \in 0..len :
       /\ ~crashed
       /\ stack = <<>>
       /\ jobs = 0
       /\ Len(scopes) > 0
       /\ Len(TopScope) < MaxWrappers
       /\ IF exception # JS_UNINITIALIZED
          THEN /\ names' = [names EXCEPT !.call = [status |-> js__error(exception), before |-> names.object,
                                                    array |-> <<>>]]
               /\ UNCHANGED <<exception, scopes>>
          ELSE LET written == IF failing # 0 THEN failing - 1 ELSE len
                   stored == StoreNames([object |-> names.object, array |-> <<>>], properties, written)
               IN /\ len <= MaxNames
                  /\ exception' = IF failing # 0 THEN OpError ELSE exception
                  /\ scopes' = IF failing # 0 THEN scopes ELSE js__attach_to_handle_scope(scopes, "array")
                  /\ names' = [object |-> stored.object,
                               call |-> [status |-> IF failing # 0 THEN js__error(exception') ELSE js_ok,
                                         before |-> names.object, array |-> stored.array]]
       /\ UNCHANGED <<refVars, depth, jobs, uncaught_exception, stack, budget, ret, probes, returned,
                      releases, crashed, apiVars, cbInfo, hook, tagVars, rejVars, bufVars, envVars>>

\* The host sets properties of an object and asks for its property names.
NextNames ==
  \/ js_open_handle_scope
  \/ js_close_handle_scope
  \/ js_set_named_property
  \/ js_get_property_names
  \/ js_get_and_clear_last_exception

SpecNames == Init /\ [][NextNames]_vars

\* ------------------------------------------------------- claims C1 .. C6

\* A call entered at top level just returned and nothing happened since.
JustReturned == ret # NoRet /\ probes = <<>>

\* The APIs C1 names (js_property: property get / set / has / delete).
DrainingApis ==
  {"js_run_script", "js_run_module", "js_instantiate_module", "js_call_function",
   "js_new_instance", "js_property"}

\* C1: when a script-executing API that was entered at depth 0 with no
\* exception pending and ran its operation returns, the pending-job queue is
\* empty.
C1_QueueEmptyAtReturn ==
  (JustReturned /\ ret.fn \in DrainingApis /\ ret.ran /\ ret.entryDepth = 0
     /\ ret.entryExc = JS_UNINITIALIZED)
  => jobs = 0

\* What the i-th recorded query must answer if the slot held value when the
\* call returned: pending until the first get-and-clear, which yields value.
ProbeAnswers(value) ==
  \A i \in 1..Len(probes) :
    LET cleared == \E j \in 1..(i - 1) : probes[j].op = "js_get_and_clear_last_exception"
    IN IF probes[i].op = "js_is_exception_pending"
       THEN probes[i].result = (IF cleared THEN "false" ELSE "true")
       ELSE probes[i].result = (IF cleared THEN JS_UNDEFINED ELSE value)

\* C2: no uncaught-exception callback; js_run_script entered at depth 0 whose
\* script throws returns a negative status, js_is_exception_pending then says
\* true, js_get_and_clear_last_exception yields the thrown value and
\* js_is_exception_pending says false from then on.
C2_ThrownValueStaysPending ==
  (ret # NoRet /\ stack = <<>> /\ ret.fn = "js_run_script" /\ ret.entryDepth = 0
     /\ ret.entryExc = JS_UNINITIALIZED /\ ret.thrown # JS_UNINITIALIZED
     /\ uncaught_exception = NULL)
  => /\ ret.status \in {js_pending_exception, js_uncaught_exception}
     /\ probes = <<>> => exception = ret.thrown
     /\ ProbeAnswers(ret.thrown)

\* How often the uncaught-exception callback ran with value during the call.
CallbackCalls(value) ==
  Cardinality({i \in 1..Len(ret.cbArgs) : ret.cbArgs[i] = value})

\* C3: an uncaught-exception callback is registered; a script-executing API
\* entered at depth 0 that fails has invoked the callback exactly once with the
\* thrown value, leaves no exception pending and returns js_uncaught_exception.
C3_UncaughtDeliveredOnce ==
  (JustReturned /\ stack = <<>> /\ ret.ran /\ ret.status # js_ok /\ ret.entryDepth = 0
     /\ uncaught_exception # NULL)
  => /\ CallbackCalls(ret.thrown) = 1
     /\ exception = JS_UNINITIALIZED
     /\ ret.status = js_uncaught_exception

ReturnsEnteredPending == ret' # NoRet /\ probes' = <<>> /\ ret'.entryExc # JS_UNINITIALIZED

\* C5 as stated: with an exception pending, every script-executing API returns
\* js_pending_exception without running script and leaves env->depth, the
\* handle-scope stack, the job queue and the pending exception unchanged.
C5_EveryApiRefuses ==
  [][ReturnsEnteredPending =>
       /\ ret'.status = js_pending_exception
       /\ ~ret'.ran
       /\ UNCHANGED <<depth, scopes, jobs, exception>>]_vars

\* C5 amended: with an exception pending, every script-executing API except
\* js_resolve_deferred / js_reject_deferred returns js_pending_exception
\* without running script and leaves env->depth, the handle-scope stack, the
\* job queue and the pending exception unchanged; those two go ahead and
\* return 0.
C5_GuardedApisRefuse ==
  [][ReturnsEnteredPending =>
       IF ret'.fn = "js__conclude_deferred"
       THEN ret'.ran /\ ret'.status = js_ok
       ELSE /\ ret'.status = js_pending_exception
            /\ ~ret'.ran
            /\ UNCHANGED <<depth, scopes, jobs, exception>>]_vars

\* C5 witness: inside a native function callback that threw, at depth >= 1
\* with a job queued, js_run_script was refused.
C5_Witness ==
  /\ JustReturned
  /\ ret.fn = "js_run_script"
  /\ ret.entryExc = HostError
  /\ ~ret.ran
  /\ ret.status = js_pending_exception
  /\ depth >= 1
  /\ jobs >= 1
  /\ exception = HostError

\* Object o has a wrapper in an open handle scope.
Attached(o) ==
  \E i \in 1..Len(scopes) : \E j \in 1..Len(scopes[i]) : scopes[i][j] = o

\* C6: the value of every wrapper attached to a handle scope is released
\* exactly once, by the close of that scope: not before the scope closes,
\* once after, including a wrapper a function callback returned while an
\* exception was pending.
C6_OneReleasePerWrapper ==
  \A o \in Objects :
    objState[o] # "none" => releases[o] = (IF Attached(o) THEN 0 ELSE 1)

\* ------------------------------------------------------ claims C7 .. C10

\* The weak observer of reference r: the hidden external carrying
\* js__on_reference_finalize for r, on some object.
ObserverInstalled(r) ==
  \E o \in Objects : \E e \in objProps[o] :
    e.finalize_cb = "js__on_reference_finalize" /\ e.data = r

\* Wrappers of object o in the open handle scopes.
WrapperCount(o) ==
  Cardinality({<<i, j>> \in (1..MaxScopes + 1) \X (1..MaxWrappers + 1) :
                 i <= Len(scopes) /\ j <= Len(scopes[i]) /\ scopes[i][j] = o})

\* References holding a strong engine reference on o.
StrongRefs(o) ==
  {r \in RefIds : refs[r].state = "live" /\ refs[r].value = o /\ refs[r].count > 0}

\* C7: for every live reference, the weak observer is installed on the target
\* if and only if count == 0, the reference is not finalized and the target
\* is an object or function.
C7_ObserverIffWeak ==
  \A r \in RefIds :
    refs[r].state = "live" =>
      (ObserverInstalled(r) <=>
         (refs[r].count = 0 /\ ~refs[r].finalized /\ IsObjectLike(refs[r].target)))

\* C7 witness: a reference whose count went 1 -> 0 carries the observer again.
C7_Witness ==
  \E r \in RefIds :
    /\ refs[r].state = "live"
    /\ lastChange[r] = "1to0"
    /\ ~refs[r].finalized
    /\ ObserverInstalled(r)

\* C8: a live, unfinalized reference with count > 0 holds one strong engine
\* reference on its target: the target is alive, and every live object's
\* engine count is exactly its wrappers in open scopes plus its strong
\* references, so no scope close can collect it.
C8_StrongKeepsAlive ==
  /\ \A r \in RefIds :
       (refs[r].state = "live" /\ refs[r].count > 0 /\ ~refs[r].finalized
          /\ IsObjectLike(refs[r].value))
       => (objState[refs[r].value] = "alive" /\ objRc[refs[r].value] >= 1)
  /\ \A o \in Objects :
       objState[o] = "alive" => objRc[o] = WrapperCount(o) + Cardinality(StrongRefs(o))

\* C8 witness: after every scope holding the target closed, a reference
\* raised 0 -> 1 is all that keeps the target alive.
C8_Witness ==
  \E r \in RefIds :
    /\ refs[r].state = "live"
    /\ lastChange[r] = "0to1"
    /\ IsObjectLike(refs[r].value)
    /\ objState[refs[r].value] = "alive"
    /\ WrapperCount(refs[r].value) = 0
    /\ objRc[refs[r].value] = 1

\* C9: js_get_reference_value returns NULL once the target has been collected
\* and otherwise a wrapper of the original target, freshly attached to the
\* current handle scope.
C9_GetReferenceValue ==
  lastGet.ref # NULL =>
    LET t == refs[lastGet.ref].target
    IN IF IsObjectLike(t) /\ objState[t] = "freed"
       THEN lastGet.result = NULL
       ELSE /\ lastGet.result = t
            /\ Len(scopes) > 0
            /\ Len(TopScope) > 0
            /\ TopScope[Len(TopScope)] = t

\* C9 witness: the count went 1 -> 0, the target was collected, and the get
\* that just returned gave NULL.
C9_Witness ==
  /\ lastGet.ref # NULL
  /\ lastGet.result = NULL
  /\ lastChange[lastGet.ref] = "1to0"
  /\ objState[refs[lastGet.ref].target] = "freed"

\* C9 second case reached: the count went 0 -> 1 before any collection and the
\* get returned a wrapper of the target.
C9_WitnessRevived ==
  /\ lastGet.ref # NULL
  /\ lastGet.result \in Objects
  /\ lastChange[lastGet.ref] = "0to1"

\* How often the host finalize callback ran with data d.
FinalizeCalls(d) ==
  Cardinality({i \in 1..Len(finalizeLog) : finalizeLog[i][1] = d})

RECURSIVE ExpectedFinalizers(_, _)
ExpectedFinalizers(log, o) ==
  IF log = <<>> THEN <<>>
  ELSE LET rest == ExpectedFinalizers(Tail(log), o)
           e == Head(log)
       IN IF e.obj = o /\ e.finalize_cb # NULL
          THEN Append(rest, <<e.data, e.finalize_hint>>) ELSE rest

\* C11: collecting an object runs the callbacks of all js_add_finalizer calls
\* made on it, each exactly once, newest first; none runs before.
C11_FinalizersReverseOrder ==
  \A o \in Objects :
    objState[o] # "none" =>
      finalizeLog = (IF objState[o] = "freed" THEN ExpectedFinalizers(addLog, o) ELSE <<>>)

\* C11 witness: three finalizers with callbacks were attached and the object
\* was collected.
C11_Witness ==
  \E o \in Objects :
    /\ objState[o] = "freed"
    /\ Len(addLog) = 3
    /\ Len(finalizeLog) = 3

\* C12: once js_add_type_tag succeeded on an object, js_check_type_tag yields
\* true exactly for a tag equal to it in both halves, also after later
\* js_add_type_tag calls; such a later call fails with a negative status and
\* leaves an error pending.
C12_TypeTagChecked ==
  /\ (lastTag.op = "js_check_type_tag" /\ lastTag.status = js_ok /\ tagLog[lastTag.obj] # <<>>)
     => (lastTag.result <=> (/\ lastTag.tag.lower = tagLog[lastTag.obj][1].lower
                             /\ lastTag.tag.upper = tagLog[lastTag.obj][1].upper))
  /\ (lastTag.op = "js_add_type_tag" /\ lastTag.already)
     => /\ lastTag.status \in {js_pending_exception, js_uncaught_exception}
        /\ lastTag.pending # JS_UNINITIALIZED

\* A js_add_type_tag was refused on the tagged object and a check followed.
Retagged(o) ==
  /\ o \in tagRefused
  /\ lastTag.op = "js_check_type_tag"
  /\ lastTag.obj = o
  /\ lastTag.status = js_ok
  /\ tagLog[o] # <<>>

\* C12 witness: after a refused second js_add_type_tag the error was cleared
\* and a check with a tag differing in the upper half only said false.
C12_Witness ==
  \E o \in Objects :
    /\ Retagged(o)
    /\ lastTag.tag.lower = tagLog[o][1].lower
    /\ lastTag.tag.upper # tagLog[o][1].upper
    /\ ~lastTag.result

\* Position of promise in the sequence log, 0 when absent.
PositionIn(log, promise) ==
  IF \E i \in 1..Len(log) : log[i] = promise
  THEN CHOOSE i \in 1..Len(log) : log[i] = promise
  ELSE 0

\* C13: the unhandled-rejection callback is called for the promises in the
\* order their rejections were reported.
C13_DeliveredInInsertionOrder ==
  \A i, j \in 1..Len(deliveries) :
    i < j => PositionIn(reportLog, deliveries[i]) < PositionIn(reportLog, deliveries[j])

\* C14: the callback is called at most once for a promise, only for a promise
\* reported as rejected without a handler, and never for one whose node a
\* handled report removed.
C14_DeliveredOnceUnlessHandled ==
  /\ \A i, j \in 1..Len(deliveries) : i # j => deliveries[i] # deliveries[j]
  /\ \A i \in 1..Len(deliveries) :
       /\ PositionIn(reportLog, deliveries[i]) # 0
       /\ deliveries[i] \notin removed

\* C14 witness: all calls have returned, one reported promise was handled in
\* time and another delivered.
C14_Witness ==
  /\ stack = <<>>
  /\ removed # {}
  /\ deliveries # <<>>
  /\ promise_rejections = <<>>

\* The array buffers created from store b that are not collected yet.
AliveBuffers(b) == {a \in Buffers : buffers[a].state = "alive" /\ buffers[a].store = b}

\* C15: while a backing store lives its count is one for the host, until the
\* release, plus one per living array buffer created from it; it is freed
\* exactly when nothing of that is left, and its owner is released once then
\* and never before.
C15_StoreCount ==
  \A b \in Stores :
    LET due == (IF stores[b].released THEN 0 ELSE 1) + Cardinality(AliveBuffers(b))
    IN /\ stores[b].state = "live" => stores[b].references = due /\ due > 0 /\ stores[b].ownerFrees = 0
       /\ stores[b].state = "freed" => due = 0 /\ stores[b].ownerFrees = 1

\* C15 witness: a store was freed by the finalization of the last of two
\* array buffers, after the host's release.
C15_Witness ==
  \E b \in Stores :
    /\ stores[b].state = "freed"
    /\ Cardinality({a \in Buffers : buffers[a].state = "finalized" /\ buffers[a].store = b}) = 2

\* C16: a SharedArrayBuffer payload's header lives exactly as long as it has
\* holders, and its count is the number of holders.
C16_HeaderFreedWithLastHolder ==
  \A m \in Payloads :
    /\ headers[m].state = "live" => headers[m].holders > 0 /\ headers[m].references = headers[m].holders
    /\ headers[m].state = "freed" => headers[m].holders = 0

\* C16 witness: a payload created by js_create_sharedarraybuffer and one
\* allocated by the engine were both freed by their last holders.
C16_Witness ==
  /\ \A m \in Payloads : headers[m].state = "freed"
  /\ \E m \in Payloads : headers[m].origin = "js_create_sharedarraybuffer"
  /\ \E m \in Payloads : headers[m].origin = "js__on_shared_malloc"

RECURSIVE Reverse(_)
Reverse(seq) == IF seq = <<>> THEN <<>> ELSE Append(Reverse(Tail(seq)), Head(seq))

IsPrefix(a, b) == Len(a) <= Len(b) /\ SubSeq(b, 1, Len(a)) = a

C18_ClosedWithoutOutstanding ==
  \A i \in 1..Len(closes) : closes[i].refs = 0

\* C18 witness: js__on_teardown closed the env after js_destroy_env had
\* returned with a deferred task outstanding.
C18_Witness ==
  /\ env_state = "closing"
  /\ closes = <<[caller |-> "js__on_teardown", refs |-> 0]>>
  /\ teardownLog # <<>>

\* js_destroy_env has returned and no deferred task is outstanding.
AllFinished == env_state \notin {"running", "walking"} /\ env_refs = 0

\* C19: once js_destroy_env has returned and the deferred tasks are finished
\* for good, the env is eventually freed; it is closed once, and freed only
\* when all its handles' close callbacks have run.
C19_EventuallyFreed ==
  /\ [](env_state = "freed" => active_handles = 0 /\ Len(closes) = 1)
  /\ [](env_state = "closing" => active_handles > 0 /\ Len(closes) = 1)
  /\ (<>[]AllFinished => <>(env_state = "freed"))

\* C19 witness: the env was freed after js__on_teardown closed it.
C19_Witness ==
  /\ env_state = "freed"
  /\ active_handles = 0
  /\ \E i \in 1..Len(closes) : closes[i].caller = "js__on_teardown"

\* C20: a js_run_module whose evaluation threw returns 0 with a promise
\* rejected with the thrown value, and leaves no exception pending.
C20_RejectedWithThrownValue ==
  (ret.fn = "js_run_module" /\ ret.ran /\ ret.thrown # JS_UNINITIALIZED)
    => /\ ret.status = js_ok
       /\ ret.reason = ret.thrown
       /\ exception = JS_UNINITIALIZED

\* ----------------------------------------------------- claims C21 .. C30

\* C21: js_call_function_with_checkpoint has drained the job queue when it
\* goes on to return, at every depth, and a call of it whose function threw
\* has handed the thrown value to the uncaught-exception path: to the callback
\* if one is registered, else back into the pending slot.
C21_CheckpointDrainsAndDelivers ==
  /\ IF stack = <<>> THEN TRUE
     ELSE (Top.kind = "api" /\ Top.fn = "js_call_function_with_checkpoint" /\ Top.pc = "drained")
            => jobs = 0
  /\ (JustReturned /\ ret.fn = "js_call_function_with_checkpoint" /\ ret.ran
        /\ ret.thrown # JS_UNINITIALIZED)
     => IF uncaught_exception # NULL
        THEN CallbackCalls(ret.thrown) >= 1
        ELSE exception = ret.thrown

\* C22: when a dispatch through the callback bridge returns to the engine,
\* env->scope's chain is what it was when the bridge was entered, whatever the
\* callback returned and whether or not it left an exception pending.
C22_BridgeScopeBalanced ==
  [][IF stack = <<>> THEN TRUE
     ELSE (Top.kind \in {"native", "construct"} /\ stack' = Pop(stack))
            => scopes' = Top.entryScopes]_vars

\* C22 witness: a constructor dispatch whose callback left an exception
\* pending has returned to the engine.
C22_Witness ==
  /\ returned = Receiver
  /\ exception # JS_UNINITIALIZED
  /\ ~crashed

\* C23: when the constructor callback returns with an exception pending,
\* js__on_constructor_call hands the engine JS_EXCEPTION.
C23_ConstructorExceptionPropagates ==
  [][IF stack = <<>> THEN TRUE
     ELSE (Top.kind = "construct" /\ stack' = Pop(stack) /\ exception # JS_UNINITIALIZED)
            => returned' = JS_EXCEPTION]_vars

\* C24: the parent of an escapable scope receives at most one wrapper from
\* js_escape_handle while that scope is open.
C24_AtMostOneEscape ==
  escapable.escaped <= 1

\* C25: a call of an unsupported-operation stub returns a negative status
\* and leaves an exception pending, whatever the pending-exception slot held
\* when it was called.
C25_StubReportsUnsupported ==
  (ret # NoRet /\ ret.fn \in UnsupportedStubs)
    => /\ ret.status \in {js_pending_exception, js_uncaught_exception}
       /\ exception # JS_UNINITIALIZED

\* C26: a handle-scope, reference or value-query call made while an
\* exception is pending leaves that exception pending.
C26_AllowedLeavesPending ==
  [][(exception # JS_UNINITIALIZED /\ AllowedWhilePending)
       => exception' = exception]_vars

\* C27: a string extractor given a buffer of capacity len > 0 stores exactly
\* min(required, len) code units, reports that count, and stores a terminator
\* exactly when the count is below len; given no buffer it stores nothing and
\* reports the required length.
C27_StringExtraction ==
  strCall # NoStringCall =>
    IF strCall.arg.str = NULL
    THEN strCall.stored = 0 /\ strCall.result = strCall.required
    ELSE strCall.arg.len > 0 =>
           /\ strCall.stored = Min(strCall.required, strCall.arg.len)
           /\ strCall.result = Min(strCall.required, strCall.arg.len)
           /\ strCall.terminated <=> strCall.result < strCall.arg.len

\* C28: when a call of js_instantiate_module returns, env->resolvers is what
\* it was when the call was entered.
C28_ResolversBalanced ==
  [][IF stack = <<>> THEN TRUE
     ELSE (Top.kind = "instantiate" /\ Len(stack') < Len(stack))
            => resolvers' = Top.entryResolvers]_vars

\* C29: a call of a public API that has just returned left env->depth at the
\* value it had when the call was made.
C29_DepthBracketed ==
  JustReturned => depth = ret.entryDepth

\* The deferred teardown tasks linked in a queue.
DeferredTasks(queue) == {i \in 1..Len(queue) : queue[i].type = "js_deferred_teardown"}

\* C30: env->refs is the number of deferred teardown tasks in the teardown
\* queue, in every state.
C30_RefsCountDeferred ==
  env_refs = Cardinality(DeferredTasks(teardown_queue))

\* C30 witness: the last deferred task was finished after js_destroy_env
\* returned, which signalled the async handle; env->refs is back at 0.
C30_Witness ==
  /\ env_state = "destroyed"
  /\ async_pending
  /\ env_refs = 0
  /\ DeferredTasks(teardown_queue) = {}


\* ---------------------------------------------------------------- claims C31 .. C40

\* C31: a js_finish_deferred_teardown_callback call on a queued handle removed
\* exactly the task owning the handle, lowered env->refs by one, signalled the
\* teardown handle exactly when env->refs reached 0 with env->destroying set,
\* and returned 0; a call on a handle no task of the queue owns returned -1
\* and changed neither the queue nor env->refs.
C31_FinishRemovesOrRejects ==
  finishes.last # NoFinish =>
    IF finishes.last.stale
      THEN /\ finishes.last.status = "-1"
           /\ finishes.last.removed = {}
           /\ finishes.last.refs = 0
      ELSE /\ finishes.last.status = js_ok
           /\ finishes.last.removed = {finishes.last.task}
           /\ finishes.last.refs = 0 - 1
           /\ finishes.last.signalled <=> (finishes.last.last /\ finishes.last.destroying)

\* C32: js__close_env is executed at most once for an environment, whatever
\* the order of js_destroy_env, the deferred teardown callbacks, the finish
\* calls and the callback of the teardown async handle.
C32_ClosedAtMostOnce ==
  Len(closes) <= 1

\* C32 witness: a deferred callback finished its task inside js_destroy_env,
\* which signalled the async handle, and js_destroy_env then closed the env
\* itself; the handle closes are under way.
C32_Witness ==
  /\ env_state = "closing"
  /\ closes = <<[caller |-> "js_destroy_env", refs |-> 0]>>
  /\ finishes.last # NoFinish
  /\ finishes.last.signalled
  /\ active_handles < 3

\* C33: when a host function callback has returned, js__on_function_call
\* returns to the engine: JS_EXCEPTION if an exception is pending, whatever
\* the callback returned; otherwise the value of one of the callback's
\* wrappers, kept alive by a reference of its own, or undefined.
C33_FunctionCallResult ==
  [][IF stack = <<>> THEN TRUE
     ELSE (Top.kind = "native" /\ stack' = Pop(stack))
            => /\ ~crashed'
               /\ IF exception # JS_UNINITIALIZED
                  THEN returned' = JS_EXCEPTION
                  ELSE /\ \/ returned' = JS_UNDEFINED
                          \/ \E i \in 1..Len(TopScope) : returned' = TopScope[i]
                       /\ returned' \in Objects => objRc'[returned'] >= 1]_vars

\* C34: a js_get_callback_info call with a non-null argv of capacity entries,
\* in a native call that received argc arguments, attaches to env->scope one
\* new wrapper per argument below min(argc, capacity), holding a reference
\* of its own on that argument, stores it at the argument's index, stores a
\* new wrapper of undefined at the indices from min(argc, capacity) up to
\* the capacity, and sets *argc to argc.
C34_CallbackInfoArguments ==
  [][IF stack = <<>> \/ scopes = <<>> \/ scopes' = <<>> THEN TRUE
     ELSE (Top.kind = "native" /\ stack' = stack /\ (cbInfo' # cbInfo \/ scopes' # scopes))
       => LET call == cbInfo'.call
              argv == cbInfo.argv
              n == Min(Len(argv), call.capacity)
              before == TopScope
              after == scopes'[Len(scopes')]
          IN /\ Len(call.argv) = call.capacity
             /\ SubSeq(after, 1, Len(before)) = before
             /\ \A i \in 1..n :
                  /\ call.argv[i] \in (Len(before) + 1)..Len(after)
                  /\ after[call.argv[i]] = argv[i]
                  /\ \A j \in 1..n : j # i => call.argv[j] # call.argv[i]
             /\ \A i \in (n + 1)..call.capacity :
                  /\ call.argv[i] \in (Len(before) + 1)..Len(after)
                  /\ after[call.argv[i]] = JS_UNDEFINED
             /\ \A o \in Objects :
                  objRc'[o] = objRc[o] + Cardinality({i \in 1..n : argv[i] = o})
             /\ call.argc = Len(argv)]_vars

\* C34 witness: a call that received one argument, an object, asked with a
\* capacity of three: one wrapper of the object and the padding.
C34_Witness ==
  /\ cbInfo.call # NoInfoCall
  /\ cbInfo.call.capacity = 3
  /\ Len(cbInfo.argv) = 1
  /\ cbInfo.argv[1] \in Objects
  /\ cbInfo.call.argc = 1
  /\ cbInfo.call.argv[2] = cbInfo.call.argv[3]

\* C35: js_resolve_deferred / js_reject_deferred starts js__on_run_microtasks
\* only at env->depth 0, and then returns with the job queue empty; called
\* at a depth of 1 or more it returns at once and runs no job, the reactions
\* staying in the queue.
C35_ConcludeDrainsAtDepthZero ==
  [][/\ IF Len(stack') = Len(stack) + 2
        THEN stack'[Len(stack) + 1].fn = "js__conclude_deferred" => depth = 0
        ELSE TRUE
     /\ (/\ stack' = stack
         /\ ret' # NoRet
         /\ ret'.fn = "js__conclude_deferred"
         /\ (ret' # ret \/ jobs' # jobs))
          => depth # 0 /\ jobs' >= jobs /\ ret'.entryDepth = depth
     /\ IF stack = <<>> THEN TRUE
        ELSE (Top.kind = "api" /\ Top.fn = "js__conclude_deferred" /\ stack' = Pop(stack))
               => Top.entryDepth = 0 /\ jobs' = 0]_vars

\* C35 witness: a call made inside a native function at depth 1 returned with
\* its reaction left in the queue.
C35_Witness ==
  /\ ret # NoRet
  /\ ret.fn = "js__conclude_deferred"
  /\ ret.entryDepth = 1
  /\ jobs > 0
  /\ stack # <<>>
  /\ Top.kind = "native"

\* The invocations of js__on_run_microtasks that have not returned: running
\* jobs or delivering rejections.
RunningDrains == {i \in 1..Len(stack) : stack[i].kind \in {"drain", "flush"}}

\* C36: at most one invocation of js__on_run_microtasks is running at any
\* time, whatever the host's callbacks call back into.
C36_DrainNotReentered ==
  Cardinality(RunningDrains) <= 1

\* C37: when js_run_script or js_call_function has run its operation and
\* returns status 0, no exception is pending, also when a job of its drain
\* threw and no uncaught-exception callback is registered.
C37_SuccessLeavesNothingPending ==
  (JustReturned /\ ret.fn \in {"js_run_script", "js_call_function"} /\ ret.ran /\ ret.status = js_ok)
  => exception = JS_UNINITIALIZED

\* C38: a js__on_delegate_get_own_property call whose traps left an exception
\* pending returned a negative status; otherwise it returned 1 exactly when
\* the delegate has no has trap or its has trap said true, it has a get trap
\* and the get trap returned a wrapper, and 0 if not; with 1, a descriptor
\* passed in is enumerable and holds the value of that wrapper.
C38_DelegateOwnProperty ==
  hook.pc = "done" =>
    LET present == (~hook.has \/ hook.exists = TRUE) /\ hook.get /\ hook.result # NULL
    IN IF hook.pending # JS_UNINITIALIZED
       THEN hook.status \in {js_pending_exception, js_uncaught_exception}
       ELSE /\ hook.status = (IF present THEN "1" ELSE "0")
            /\ (present /\ hook.descriptor)
                 => /\ hook.out.flags = "JS_PROP_ENUMERABLE"
                    /\ hook.out.value = hook.result

\* C38 witness: a has trap said true and the get trap returned the wrapper
\* of an object, which went into the descriptor.
C38_Witness ==
  /\ hook.pc = "done"
  /\ hook.has
  /\ hook.exists = TRUE
  /\ hook.result \in Objects
  /\ hook.status = "1"
  /\ hook.out # NoDescriptor

\* C39: a js_get_property_names call that returned 0 produced an array whose
\* elements are the object's enumerable string-keyed own property names, and
\* left the object as it was.
C39_PropertyNamesReturned ==
  names.call.status = js_ok =>
    /\ names.call.array = JS_GetOwnPropertyNames(names.call.before)
    /\ names.object = names.call.before

\* C40: js_delete_reference on a weak reference (count 0, target an object
\* or function, not finalized) removes the weak observer from the target
\* and leaves the target's engine count where it was, the reference taken
\* by js__clear_weak_reference being the one released; and no freed
\* reference is ever observed or written by js__on_reference_finalize.
C40_DeleteWeakReference ==
  /\ [](\A r \in RefIds :
         refs[r].state = "deleted" => (~ObserverInstalled(r) /\ ~refs[r].finalized))
  /\ [][\A r \in RefIds :
         (/\ refs[r].state = "live"
          /\ refs'[r].state = "deleted"
          /\ refs[r].count = 0
          /\ ~refs[r].finalized
          /\ IsObjectLike(refs[r].value))
           => /\ objState'[refs[r].value] = "alive"
              /\ objRc'[refs[r].value] = objRc[refs[r].value]]_vars

\* C40 witness: a reference whose count had gone 1 -> 0 was deleted; its
\* target, an object, is alive, so the reference was not finalized.
C40_Witness ==
  \E r \in RefIds :
    /\ refs[r].state = "deleted"
    /\ lastChange[r] = "1to0"
    /\ IsObjectLike(refs[r].target)
    /\ objState[refs[r].target] = "alive"
====
